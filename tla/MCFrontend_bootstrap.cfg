\* Azure: are the UI's bootstrap paths served to a browser without author
\* headers, as the comment on the allow-list says?
CONSTANTS
    Strs <- MCStrs
    DefaultUsers <- MCDefaultUsers
    Paths <- MCPaths
    Tokens <- MCTokens
    AzureClientId = "clientId"
    AzureTenantId = "tenantId"

SPECIFICATION Spec

CHECK_DEADLOCK FALSE

INVARIANT
    BootstrapServed
