-------------------------------- MODULE Token --------------------------------
(***************************************************************************)
(* auth.ValidateToken, the check of an Azure bearer token that the         *)
(* frontend's gRPC interceptors and auth.HttpAuthMiddleWare make.  The     *)
(* function itself is not under src/; its behaviour is fixed by the tests  *)
(* TestValidateTokenStatic and TestValidateTokenGenerated                  *)
(* (src/pkg/auth/auth.go), which this module translates: the order in     *)
(* which the checks fail and the error each one gives.                     *)
(*                                                                         *)
(* A token is abstracted to what the checks look at: how many segments    *)
(* the string has, whether its header decodes as JSON, the key id in the   *)
(* header, the aud (client id) and tid (tenant id) claims ("" when the     *)
(* claim is absent), and the exp claim in seconds relative to the moment   *)
(* of validation (Now).  Signatures are left out: every token of the tests *)
(* that gets that far is signed with the key its kid names.                *)
(***************************************************************************)
EXTENDS Integers

\* The moment ValidateToken runs, as a Unix time relative to the test's
\* time.Now().
Now == 0

\* getJwks: the test JWKS holds one RSA key, under the id "testKey".
JwksKids == {"testKey"}

\* getToken(clientId, tenantId, kid, expiry, "", ""): a signed RS256 token
\* whose aud and tid claims are set only when the argument is not empty,
\* with the given exp claim and kid header.
GetToken(clientId, tenantId, kid, expiry) ==
    [segments |-> 3, header |-> TRUE, kid |-> kid,
     aud |-> clientId, tid |-> tenantId, exp |-> expiry]

\* A string that is not a JWT: "asdf" has one segment, "asdf.asdf.asdf"
\* three whose header is not JSON.
NotAJwt(segments) ==
    [segments |-> segments, header |-> FALSE, kid |-> "", aud |-> "", tid |-> "", exp |-> 0]

\* The errors of ValidateToken, named for the test messages: "" is success.
Errors == {"", "JWKS not initialized.", "invalid number of segments",
           "could not JSON decode header", "could not find kid in JWT header",
           "key ID was not found in the JWKS", "token is expired",
           "Client id not found in token.", "Unknown client id provided",
           "Tenant id not found in token.", "Unknown tenant id provided"}

\* ValidateToken(token, jwks, clientId, tenantId): a nil JWKS fails first;
\* then jwt parsing (segments, header, kid lookup in the JWKS, the exp claim,
\* which jwt/v5 rejects unless Now is before it); then the aud claim
\* against clientId and last the tid claim against tenantId.
ValidateToken(t, jwksInit, clientId, tenantId) ==
    CASE ~jwksInit              -> "JWKS not initialized."
      [] t.segments # 3         -> "invalid number of segments"
      [] ~t.header              -> "could not JSON decode header"
      [] t.kid = ""             -> "could not find kid in JWT header"
      [] t.kid \notin JwksKids  -> "key ID was not found in the JWKS"
      [] ~(Now < t.exp)         -> "token is expired"
      [] t.aud = ""             -> "Client id not found in token."
      [] t.aud # clientId       -> "Unknown client id provided"
      [] t.tid = ""             -> "Tenant id not found in token."
      [] t.tid # tenantId       -> "Unknown tenant id provided"
      [] OTHER                  -> ""

\* The cases of TestValidateTokenStatic, validated with the client id
\* "clientId" and the tenant id "tenantId".  The two fixed JWTs carry no
\* aud and tid claims and an iat but no exp; jwt/v5 does not require exp,
\* which is written here as an expiry far ahead.
TestValidateTokenStaticCases ==
    {[token |-> NotAJwt(1), noInit |-> FALSE, err |-> "invalid number of segments"],
     [token |-> NotAJwt(1), noInit |-> TRUE,  err |-> "JWKS not initialized."],
     [token |-> NotAJwt(3), noInit |-> FALSE, err |-> "could not JSON decode header"],
     [token |-> GetToken("", "", "", 10^9), noInit |-> FALSE,
      err |-> "could not find kid in JWT header"],
     [token |-> GetToken("", "", "asdf", 10^9), noInit |-> FALSE,
      err |-> "key ID was not found in the JWKS"]}

\* The cases of TestValidateTokenGenerated: tokens from getToken with an
\* expiry ten minutes ahead unless the case sets one (time.Now().Unix(),
\* which is not after Now), validated against getJwks with "clientId" and
\* "tenantId".
TestValidateTokenGeneratedCases ==
    {[token |-> GetToken("invalidClient", "tenantId", "testKey", 600),
      err |-> "Unknown client id provided"],
     [token |-> GetToken("", "tenantId", "testKey", 600),
      err |-> "Client id not found in token."],
     [token |-> GetToken("clientId", "invalidTenant", "testKey", 600),
      err |-> "Unknown tenant id provided"],
     [token |-> GetToken("clientId", "", "testKey", 600),
      err |-> "Tenant id not found in token."],
     [token |-> GetToken("clientId", "tenantId", "tests", 600),
      err |-> "key ID was not found in the JWKS"],
     [token |-> GetToken("clientId", "tenantId", "testKey", Now),
      err |-> "token is expired"],
     [token |-> GetToken("clientId", "tenantId", "testKey", 600), err |-> ""]}

ASSUME \A tc \in TestValidateTokenStaticCases :
    ValidateToken(tc.token, ~tc.noInit, "clientId", "tenantId") = tc.err

ASSUME \A tc \in TestValidateTokenGeneratedCases :
    ValidateToken(tc.token, TRUE, "clientId", "tenantId") = tc.err

\* Every token getToken can produce from the tests' ids, key ids and
\* expiries, and the strings that are not JWTs.
AllTestTokens ==
    {NotAJwt(1), NotAJwt(3)} \cup
    {GetToken(c, tn, k, e) : c \in {"", "clientId", "invalidClient"},
                             tn \in {"", "tenantId", "invalidTenant"},
                             k \in {"", "testKey", "tests"}, e \in {Now, 600}}

\* Reference definition: with an initialised JWKS a token is accepted
\* exactly when it is a JWT with a JSON header, signed with a key of the
\* JWKS, not expired, and issued for the configured client and tenant;
\* whichever check comes first, none of them is skipped.
ASSUME \A t \in AllTestTokens :
    (ValidateToken(t, TRUE, "clientId", "tenantId") = "") <=>
        /\ t.segments = 3 /\ t.header /\ t.kid \in JwksKids /\ Now < t.exp
        /\ t.aud = "clientId" /\ t.tid = "tenantId"

=============================================================================
