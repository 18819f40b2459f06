------------------------------- MODULE Frontend -------------------------------
(***************************************************************************)
(* The request path through the frontend-service's HTTP server            *)
(* (src/services/frontend-service/pkg/cmd/server.go, runServer and        *)
(* GrpcProxy), composed with the author propagation of module Auth.       *)
(*                                                                         *)
(* runServer chains the handlers corsHandler -> Auth.ServeHTTP ->         *)
(* splitGrpcHandler.  splitGrpcHandler sends gRPC-web requests to the     *)
(* gRPC server (the GrpcProxy and the frontend config service); any other *)
(* request gets the security headers, with Azure passes                   *)
(* auth.HttpAuthMiddleWare, and then goes to index.html (paths under      *)
(* /ui) or to the ServeMux.  The mux sends /environments/,                *)
(* /environment-groups/ and /release to the REST handler (which forwards  *)
(* to the cd-service), /health to a fixed "ok", and everything else to    *)
(* the file server.  CORS only sets headers and is left out.              *)
(*                                                                         *)
(* One request is followed per behaviour.  Its kind, path or gRPC method, *)
(* batch, bearer token and the configuration are inputs chosen in Init.   *)
(***************************************************************************)
EXTENDS Naturals, SequencesExt, Token

CONSTANTS
    Strs,          \* as in Auth
    DefaultUsers,  \* as in Auth
    Paths,         \* URL paths a client may request
    Tokens,        \* bearer tokens a client may present (see Token)
    AzureClientId, AzureTenantId   \* the configured Azure client and tenant

VARIABLES
    azure, gke, default, jwt, hdr, md, phase, cdUser,   \* as in Auth
    req,       \* the request: [kind |-> "http", path |-> ...] or a gRPC call
    token,     \* the request's Azure bearer token
    rollout,   \* c.RolloutServer is set (GrpcProxy.RolloutServiceClient # nil)
    keyRing,   \* the REST handler's KeyRing is not nil
    route      \* how far the request got, or the handler that answered it

A == INSTANCE Auth

authVars == <<azure, gke, default, jwt, hdr, md, phase, cdUser>>
vars == <<authVars, req, token, rollout, keyRing, route>>

\* The batch actions the model tells apart: create-release and any other.
BatchActions == {"CreateRelease", "Deploy"}

Batches == {<<>>} \cup [1..1 -> BatchActions] \cup [1..2 -> BatchActions]

\* The calls the gRPC server registers: OverviewService, BatchService,
\* RolloutService (GrpcProxy) and the FrontendConfigService.
GrpcMethods == {"GetOverview", "StreamOverview", "StreamStatus", "GetFrontendConfig"}

Requests ==
    [kind : {"http"}, method : {"GET", "POST"}, path : Paths]
    \cup [kind : {"grpc"}, method : GrpcMethods]
    \cup [kind : {"grpc"}, method : {"ProcessBatch"}, batch : Batches]

\* The handlers that end a request: "none" is Auth.ServeHTTP returning its
\* error before any handler ran, so nothing is written to the response.
Answered == {"none", "unauthorized", "index", "health", "file", "cd",
             "batchRejected", "config", "unimplemented", "rollout"}

\* strings.HasPrefix.
HasPrefix(s, p) == IsPrefix(p, s)

\* strings.Split(path, "/"): "/environments/dev" is <<"", "environments", "dev">>.
RECURSIVE SplitPath(_, _, _)
SplitPath(s, cur, acc) ==
    IF s = "" THEN Append(acc, cur)
    ELSE IF Head(s) = "/" THEN SplitPath(Tail(s), "", Append(acc, cur))
    ELSE SplitPath(Tail(s), cur \o SubSeq(s, 1, 1), acc)

Segments(p) == SplitPath(p, "", <<>>)

\* auth.HttpAuthMiddleWare, as TestHttpMiddleware fixes it (the function is
\* not in src/): the allowed paths and prefixes pass; so do the REST calls
\* of the command line client, which the REST handler protects by a PGP
\* signature: a lock (/environments/<env>/locks/<id>), a release train
\* (/environments/<env>/releasetrain) and a POST that creates an
\* environment (/environments/<env>); anything else needs a valid token.
HttpAuthMiddleWare(m, p, paths, prefixes, valid) ==
    LET s == Segments(p)
        restCall ==
            /\ Len(s) >= 3 /\ s[2] = "environments" /\ s[3] # ""
            /\ \/ Len(s) = 5 /\ s[4] = "locks"
               \/ Len(s) = 4 /\ s[4] = "releasetrain"
               \/ Len(s) = 3 /\ m = "POST"
    IN  \/ p \in paths
        \/ \E q \in prefixes : HasPrefix(p, q)
        \/ restCall
        \/ valid

\* The unauthenticated cases of TestHttpMiddleware, which calls the
\* middleware with the path "/" and the prefixes /static/js, /static/css.
TestHttpMiddlewareCases ==
    {[method |-> "GET",  path |-> "/", ok |-> TRUE],
     [method |-> "GET",  path |-> "/static/js/content.js", ok |-> TRUE],
     [method |-> "GET",  path |-> "/static/css/content.css", ok |-> TRUE],
     [method |-> "GET",  path |-> "/environment/production/locks/999", ok |-> FALSE],
     [method |-> "GET",  path |-> "/environment/production/releasetrainisawsome", ok |-> FALSE],
     [method |-> "GET",  path |-> "/environments/production/releasetrain", ok |-> TRUE],
     [method |-> "GET",  path |-> "/environments/production/locks/999", ok |-> TRUE],
     [method |-> "POST", path |-> "/environments/dev", ok |-> TRUE],
     [method |-> "GET",  path |-> "/environments/dev", ok |-> FALSE],
     [method |-> "POST", path |-> "/environments/dev/something", ok |-> FALSE],
     [method |-> "POST", path |-> "/environments/something/dev", ok |-> FALSE],
     [method |-> "POST", path |-> "/environments/", ok |-> FALSE]}

ASSUME \A tc \in TestHttpMiddlewareCases :
    HttpAuthMiddleWare(tc.method, tc.path, {"/"}, {"/static/js", "/static/css"}, FALSE) = tc.ok

\* The paths and prefixes runServer gives HttpAuthMiddleWare as not
\* needing Azure authentication, to bootstrap the html and js.
AllowedPaths == {"/", "/release", "/health", "/manifest.json", "/favicon.png"}
AllowedPrefixes == {"/static/js", "/static/css", "/ui"}

Bootstrap(p) == p \in AllowedPaths \/ \E q \in AllowedPrefixes : HasPrefix(p, q)

\* runServer initialises the JWKS only with Azure enabled, and exits if
\* that fails; the Azure interceptors and the middleware validate the
\* request's bearer token against it with the configured client and tenant.
TokenValid == ValidateToken(token, azure, AzureClientId, AzureTenantId) = ""

\* Mutant: the allowed paths are given to the middleware as prefixes.
AzureMiddlewarePassesAsPrefixes(m, p) ==
    HttpAuthMiddleWare(m, p, {}, AllowedPaths \cup AllowedPrefixes, TokenValid)

\* splitGrpcHandler's call of auth.HttpAuthMiddleWare with runServer's lists
\* and the request's bearer token.
AzureMiddlewarePasses(m, p) == HttpAuthMiddleWare(m, p, AllowedPaths, AllowedPrefixes, TokenValid)

\* runServer exits (logger Fatal) unless the default author, which Auth
\* uses for requests without a user, has an email and a name.
DefaultUserAccepted(u) == u.email # "" /\ u.name # ""

\* c.PgpKeyRing: unset, an armored key ring, a path os.Open fails on, and
\* a file openpgp.ReadArmoredKeyRing cannot read.
PgpKeyRingConfigs == {"", "ring.asc", "unopenable", "unreadable"}

\* readPgpKeyRing: no key ring and no error when c.PgpKeyRing is empty;
\* otherwise the key ring read from the file, or the error of opening or
\* reading it.
ReadPgpKeyRing(cfg) ==
    [ring |-> cfg = "ring.asc", err |-> cfg \in {"unopenable", "unreadable"}]

\* runServer exits (logger Fatal) when reading the key ring failed, and
\* when Azure is enabled without a key ring "to authenticate manifests".
KeyRingStartupPasses(az, kr) == ~kr.err /\ (az => kr.ring)

Init ==
    /\ A!Init
    /\ req \in Requests
    /\ token \in Tokens
    /\ rollout \in BOOLEAN
    /\ \E cfg \in PgpKeyRingConfigs :
          /\ KeyRingStartupPasses(azure, ReadPgpKeyRing(cfg))
          /\ keyRing = ReadPgpKeyRing(cfg).ring
    /\ route = "auth"

\* corsHandler hands the request to Auth.ServeHTTP; an Azure request
\* without a user in its author-* headers ends there.
ServeHTTP ==
    /\ route = "auth"
    /\ A!ServeHTTP
    /\ route' = IF phase' = "rejected" THEN "none" ELSE "split"
    /\ UNCHANGED <<req, token, rollout, keyRing>>

\* splitGrpcHandler, gRPC-web: the gRPC server with its interceptors; with
\* Azure the Azure interceptors refuse a call whose token does not validate.
SplitGrpc ==
    /\ route = "split" /\ req.kind = "grpc"
    /\ route' = IF azure /\ ~TokenValid THEN "unauthorized" ELSE "grpc"
    /\ UNCHANGED <<authVars, req, token, rollout, keyRing>>

\* splitGrpcHandler, any other request: security headers, the Azure
\* middleware, then index.html under /ui and the mux otherwise.
SplitHttp ==
    /\ route = "split" /\ req.kind = "http"
    /\ route' = CASE azure /\ ~AzureMiddlewarePasses(req.method, req.path) -> "unauthorized"
                  [] HasPrefix(req.path, "/ui")                -> "index"
                  [] OTHER                                     -> "mux"
    /\ UNCHANGED <<authVars, req, token, rollout, keyRing>>

\* The ServeMux: the longest matching pattern wins; "/environments/" and
\* "/environment-groups/" match their subtrees, "/release" and "/health"
\* only themselves, "/" everything.
Mux ==
    /\ route = "mux"
    /\ route' = CASE req.path = "/health"                      -> "health"
                  [] req.path = "/release"                     -> "rest"
                  [] HasPrefix(req.path, "/environments/")     -> "rest"
                  [] HasPrefix(req.path, "/environment-groups/") -> "rest"
                  [] OTHER                                     -> "file"
    /\ UNCHANGED <<authVars, req, token, rollout, keyRing>>

\* The REST handler (handler.Server) forwards to the cd-service, which
\* reads the author from the request's headers.
RestHandler ==
    /\ route = "rest"
    /\ A!CdReadHttp
    /\ route' = "cd"
    /\ UNCHANGED <<req, token, rollout, keyRing>>

\* GrpcProxy.ProcessBatch: a batch with a create-release action anywhere
\* is refused; any other goes to the cd-service's BatchClient.
ProcessBatch ==
    /\ route = "grpc" /\ req.method = "ProcessBatch"
    /\ IF \E i \in 1..Len(req.batch) : req.batch[i] = "CreateRelease"
       THEN route' = "batchRejected" /\ UNCHANGED authVars
       ELSE A!CdReadGrpc /\ route' = "cd"
    /\ UNCHANGED <<req, token, rollout, keyRing>>

\* GrpcProxy.GetOverview and StreamOverview: forwarded to the cd-service.
ForwardOverview ==
    /\ route = "grpc" /\ req.method \in {"GetOverview", "StreamOverview"}
    /\ A!CdReadGrpc
    /\ route' = "cd"
    /\ UNCHANGED <<req, token, rollout, keyRing>>

\* GrpcProxy.StreamStatus: Unimplemented without a rollout client,
\* otherwise forwarded to the rollout service.
StreamStatus ==
    /\ route = "grpc" /\ req.method = "StreamStatus"
    /\ route' = IF rollout THEN "rollout" ELSE "unimplemented"
    /\ UNCHANGED <<authVars, req, token, rollout, keyRing>>

\* The FrontendConfigService answers from the configuration.
GetFrontendConfig ==
    /\ route = "grpc" /\ req.method = "GetFrontendConfig"
    /\ route' = "config"
    /\ UNCHANGED <<authVars, req, token, rollout, keyRing>>

Next ==
    \/ ServeHTTP \/ SplitGrpc \/ SplitHttp \/ Mux \/ RestHandler
    \/ ProcessBatch \/ ForwardOverview \/ StreamStatus \/ GetFrontendConfig

Spec == Init /\ [][Next]_vars

-----------------------------------------------------------------------------

\* Type invariant.
TypeOK ==
    /\ A!TypeOK
    /\ req \in Requests /\ token \in Tokens /\ rollout \in BOOLEAN /\ keyRing \in BOOLEAN
    /\ route \in Answered \cup {"auth", "split", "grpc", "mux", "rest"}

\* Auth's AuthorPropagated for every request the frontend routes: whatever
\* author-* headers a client sends, the cd-service reads the authenticated
\* or the default user.
AuthorPropagated == A!AuthorPropagated

\* With Azure enabled, a request without a valid bearer token reaches the
\* cd-service only as a REST call of the command line client (/release or
\* a path under /environments/, which the REST handler protects by a PGP
\* signature, and which then holds a key ring to check it): never through
\* the gRPC proxy, and never for an environment group, although the
\* middleware's allow-list for the UI contains "/".
AzureGuardsCdService ==
    azure /\ route = "cd" /\ ~TokenValid =>
        /\ req.kind = "http"
        /\ req.path = "/release" \/ HasPrefix(req.path, "/environments/")
        /\ keyRing

\* The paths and prefixes runServer exempts from Azure authentication "in
\* order to bootstrap the html, js" (server.go:301) are answered by their
\* handler for a browser that has not logged in yet: such a request never
\* ends without a handler having run.
BootstrapServed ==
    route = "none" => ~(req.kind = "http" /\ Bootstrap(req.path))

=============================================================================
