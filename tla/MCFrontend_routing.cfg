\* Every request kind, path and gRPC call, with and without Azure, IAP and
\* a rollout server: what reaches the cd-service and through which door.
CONSTANTS
    Strs <- MCStrs
    DefaultUsers <- MCDefaultUsers
    Paths <- MCPaths
    Tokens <- MCTokens
    AzureClientId = "clientId"
    AzureTenantId = "tenantId"

SPECIFICATION Spec

\* One request per behaviour: it ends once a handler has answered it.
CHECK_DEADLOCK FALSE

INVARIANTS
    AzureGuardsCdService

PROPERTY
    AuthorPropagated
