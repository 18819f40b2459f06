------------------------------ MODULE MCFrontend ------------------------------
EXTENDS Frontend

\* The empty string, a user's name and the default user's name.
MCStrs == {"", "alice", "kuberpult"}

\* Every default author runServer starts with.
MCDefaultUsers == {u \in [email : MCStrs, name : MCStrs] : DefaultUserAccepted(u)}

\* The root, /release, /health, a UI route and a static asset; the REST
\* calls the Azure middleware lets through (a lock, a release train, an
\* environment), one under /environments/ it does not, and an environment
\* group.
MCPaths == {"/", "/release", "/health", "/ui/home", "/static/js/app.js",
            "/environments/dev", "/environments/dev/locks/l1",
            "/environments/dev/releasetrain", "/environments/dev/x",
            "/environment-groups/g"}

\* A token the frontend accepts, one that has expired and one issued for
\* another tenant (getToken's shapes; see Token).
MCTokens == {GetToken("clientId", "tenantId", "testKey", 600),
             GetToken("clientId", "tenantId", "testKey", Now),
             GetToken("clientId", "otherTenant", "testKey", 600)}
=============================================================================
