-------------------------------- MODULE Auth --------------------------------
(***************************************************************************)
(* The author of a request, from the frontend to the cd-service.  The     *)
(* frontend's Auth.ServeHTTP (server.go) takes the user from the Azure    *)
(* headers or the Google IAP JWT, falls back to the default user          *)
(* (auth.GetUserOrDefault), and writes the result base64-encoded into the *)
(* request's author-* headers and into the outgoing gRPC metadata.  The   *)
(* cd-service reads it back with ReadUserFromHttpHeader (requests the     *)
(* frontend proxies over HTTP) or ReadUserFromGrpcContext (gRPC calls).   *)
(*                                                                         *)
(* Strings are a small set; a header value is absent, the base64 form of *)
(* a string, or garbage that is not base64.  A nil *User is the empty     *)
(* user, which every reader treats alike.  One request is followed per    *)
(* behaviour; the configuration is chosen with it.                        *)
(***************************************************************************)
EXTENDS Naturals

CONSTANTS
    Strs,          \* strings a header or a claim may carry, "" included
    DefaultUsers   \* the frontend's configured default users

ASSUME "" \in Strs

Users == [email : Strs, name : Strs]

\* What a client or a proxy can put into an author-* header.
Absent == [k |-> "absent", s |-> ""]
HeaderValues == {Absent, [k |-> "garbage", s |-> ""]} \cup [k : {"b64"}, s : Strs]

\* The X-Goog-IAP-JWT-Assertion header: absent, failing idtoken.Validate,
\* or valid with an email claim.
Jwts == [k : {"absent", "invalid"}, email : {""}] \cup [k : {"valid"}, email : Strs]

NoUser == [email |-> "", name |-> ""]

ASSUME DefaultUsers \subseteq Users

VARIABLES
    azure,     \* c.AzureEnableAuth
    gke,       \* c.GKEProjectNumber and c.GKEBackendServiceID are set
    default,   \* Auth.DefaultUser
    jwt,       \* the request's IAP JWT header
    hdr,       \* the request's author-name, author-email, author-role headers
    md,        \* the outgoing gRPC metadata the frontend wrote
    phase,     \* "frontend", "cd" (forwarded), "rejected", "done"
    cdUser     \* what the cd-service's reader returned

vars == <<azure, gke, default, jwt, hdr, md, phase, cdUser>>

Encode64(s) == [k |-> "b64", s |-> s]

\* Decode64: Header.Get of a missing header is "", which decodes to "".
Decode64(h) ==
    CASE h.k = "absent"  -> [err |-> FALSE, val |-> ""]
      [] h.k = "garbage" -> [err |-> TRUE,  val |-> ""]
      [] h.k = "b64"     -> [err |-> FALSE, val |-> h.s]

Fail == [err |-> TRUE, user |-> NoUser]

\* ReadUserFromHttpHeader: decode email, name and role (each may fail);
\* a user needs a non-empty name and email.
ReadUserFromHttpHeader(h) ==
    LET e == Decode64(h.email)  n == Decode64(h.name)  r == Decode64(h.role)
    IN  IF e.err \/ n.err \/ r.err \/ n.val = "" \/ e.val = "" THEN Fail
        ELSE [err |-> FALSE, user |-> [email |-> e.val, name |-> n.val]]

\* ReadUserFromGrpcContext without DEX: the metadata must carry an email
\* and a name that decode, and neither may be empty.
ReadUserFromGrpcContext(m) ==
    LET e == Decode64(m.email)  n == Decode64(m.name)
    IN  IF e.err \/ n.err \/ e.val = "" \/ n.val = "" THEN Fail
        ELSE [err |-> FALSE, user |-> [email |-> e.val, name |-> n.val]]

\* WriteUserToHttpHeader: Header.Set of author-name and author-email.
WriteUserToHttpHeader(h, u) == [h EXCEPT !.name = Encode64(u.name), !.email = Encode64(u.email)]

\* WriteUserToGrpcContext: author-email and author-name in the metadata.
WriteUserToGrpcContext(u) == [email |-> Encode64(u.email), name |-> Encode64(u.name)]

\* getRequestAuthorFromGoogleIAP: no JWT, no GKE configuration or a JWT that
\* does not validate give no user; a valid one gives its email only.
GetRequestAuthorFromGoogleIAP ==
    IF jwt.k # "valid" \/ ~gke THEN NoUser
    ELSE [email |-> jwt.email, name |-> ""]

\* Mutant: no name falls back to the email.
GetUserOrDefaultNoFallback(u, d) ==
    IF u.email # "" THEN [email |-> u.email, name |-> u.name] ELSE d

\* GetUserOrDefault: the user when it has an email (its name, or the email
\* when it has no name), otherwise the default user.
GetUserOrDefault(u, d) ==
    IF u.email # ""
    THEN [email |-> u.email, name |-> IF u.name = "" THEN u.email ELSE u.name]
    ELSE d

Init ==
    /\ azure \in BOOLEAN /\ gke \in BOOLEAN /\ default \in DefaultUsers
    /\ jwt \in Jwts
    /\ hdr \in [name : HeaderValues, email : HeaderValues, role : HeaderValues]
    /\ md = [email |-> Absent, name |-> Absent]
    /\ phase = "frontend"
    /\ cdUser = Fail

\* Auth.ServeHTTP: with Azure the headers must hold a user, else the
\* request fails; otherwise the IAP user.  The combined user is written to
\* the author-name and author-email headers (Header.Set replaces what the
\* client sent; author-role is left as it is) and to the gRPC metadata,
\* and the request is handed on.
ServeHTTP ==
    /\ phase = "frontend"
    /\ LET az == ReadUserFromHttpHeader(hdr)
           user == IF azure THEN az.user ELSE GetRequestAuthorFromGoogleIAP
           combined == GetUserOrDefault(user, default)
       IN  IF azure /\ az.err
           THEN phase' = "rejected" /\ UNCHANGED <<hdr, md>>
           ELSE /\ hdr' = WriteUserToHttpHeader(hdr, combined)
                /\ md' = WriteUserToGrpcContext(combined)
                /\ phase' = "cd"
    /\ UNCHANGED <<azure, gke, default, jwt, cdUser>>

\* The cd-service serves a proxied HTTP request (e.g. /release).
CdReadHttp ==
    /\ phase = "cd"
    /\ cdUser' = ReadUserFromHttpHeader(hdr)
    /\ phase' = "done"
    /\ UNCHANGED <<azure, gke, default, jwt, hdr, md>>

\* The cd-service serves a gRPC call (e.g. ProcessBatch).
CdReadGrpc ==
    /\ phase = "cd"
    /\ cdUser' = ReadUserFromGrpcContext(md)
    /\ phase' = "done"
    /\ UNCHANGED <<azure, gke, default, jwt, hdr, md>>

Next == ServeHTTP \/ CdReadHttp \/ CdReadGrpc

Spec == Init /\ [][Next]_vars

-----------------------------------------------------------------------------

\* Type invariant.
TypeOK ==
    /\ azure \in BOOLEAN /\ gke \in BOOLEAN /\ default \in DefaultUsers
    /\ jwt \in Jwts
    /\ hdr \in [name : HeaderValues, email : HeaderValues, role : HeaderValues]
    /\ md \in [email : HeaderValues, name : HeaderValues]
    /\ phase \in {"frontend", "cd", "rejected", "done"}
    /\ cdUser \in {Fail} \cup [err : {FALSE}, user : Users]

\* Who the request is from, as the frontend authenticates it: with Azure
\* the user in the headers, with IAP the JWT's email; nobody otherwise.
Authenticated ==
    IF azure THEN LET n == Decode64(hdr.name) IN [email |-> Decode64(hdr.email).val, name |-> n.val]
    ELSE IF gke /\ jwt.k = "valid" THEN [email |-> jwt.email, name |-> ""]
    ELSE NoUser

\* Every request the frontend hands on reaches the cd-service with the
\* author the frontend settled on, on both paths: with IAP the email of a
\* valid JWT (standing in for the name), whatever author-name and
\* author-email the client sent; with neither IAP nor a JWT the default
\* user; with Azure the client's own author-name and author-email headers,
\* decoded (the token check is the only authentication, and it does not
\* tie the author to the token).  The client's author-role header passes
\* through unchecked (hazard H21); the HTTP path refuses only a role that
\* is not base64.
AuthorPropagated ==
    [][phase = "frontend" /\ phase' = "cd" =>
         LET a == Authenticated
             expected == IF a.email # ""
                         THEN [email |-> a.email, name |-> IF a.name = "" THEN a.email ELSE a.name]
                         ELSE default
             ok == [err |-> FALSE, user |-> expected]
         IN  /\ ReadUserFromGrpcContext(md') = ok
             /\ ReadUserFromHttpHeader(hdr') = IF Decode64(hdr.role).err THEN Fail ELSE ok
      ]_vars

=============================================================================
