------------------------------ MODULE HttpFront ------------------------------
(***************************************************************************)
(* A request on the HTTP transport: the middleware around the MCP          *)
(* application (server/http_middleware.py, composed by                     *)
(* build_http_asgi_app), the authenticator of the configured mode          *)
(* (server/auth.py), the principal resolver (server/app.py) and the        *)
(* capability check of the tool (tools/registry.py).                       *)
(*                                                                         *)
(* Every layer is an action.  Requests in flight share nothing but the     *)
(* buckets and the readiness answer, which are RateLimiter's and           *)
(* CachedReadiness's; here those decisions may fall either way.            *)
(* TLS, the proxy and the identity provider are external: what a user can  *)
(* present is what they let through (Presentable).                         *)
(***************************************************************************)
EXTENDS Naturals, FiniteSets

CONSTANTS
  Requests,     \* request slots: how many requests are in flight
  Users,        \* the people with credentials
  WriteScope    \* oauth_write_scope, or "none"

(* A token is a user's, or none that is configured. *)
ASSUME UsersAssumption == Users \cap {"static", "forged", "jwt"} = {}

Modes == {"none", "bearer", "mtls", "mtls-proxy", "oauth"}

VARIABLES
  mode,      \* auth_mode
  http       \* the requests in flight

httpVars == <<mode, http>>

-----------------------------------------------------------------------------
(* Credentials. *)

NoCredential ==
  [scheme |-> "none", token |-> "none",               \* Authorization
   valid |-> FALSE, sub |-> "none", scopes |-> {},    \* its claims, if a JWT
   cert |-> "none",                                   \* the verified peer cert's field
   secret |-> "none", identity |-> "none"]            \* the proxy's headers

(* bearer_tokens: a user's token; the static bearer_token, added with      *)
(* setdefault, belongs to the operator.                                    *)
Tokens == [t \in Users \cup {"static"} |-> IF t = "static" THEN "bearer" ELSE t]

Authorization(scheme, token) == [NoCredential EXCEPT !.scheme = scheme, !.token = token]

Jwt(sub, scopes) ==
  [Authorization("bearer", "jwt") EXCEPT !.valid = TRUE, !.sub = sub, !.scopes = scopes]

UnverifiedJwt(sub) == [Jwt(sub, {WriteScope}) EXCEPT !.valid = FALSE]

PeerCert(cert, identity) == [NoCredential EXCEPT !.cert = cert, !.identity = identity]

Forwarded(secret, identity) == [NoCredential EXCEPT !.secret = secret, !.identity = identity]

(* What a sender can present: credentials of its own, or made-up ones.     *)
(* The sender "bearer" holds the static token.                             *)
Presentable(who) ==
  LET own == IF who = "bearer" THEN "static" ELSE who
  IN {NoCredential}
     \cup {Authorization(s, t) : s \in {"bearer", "basic"}, t \in {own, "forged", "nonascii"}}
     \cup {Jwt(id, g) : id \in {who, "none", "empty"}, g \in SUBSET {WriteScope}}
     \cup {UnverifiedJwt(id) : id \in Users}
     \cup {PeerCert(c, id) : c \in {who, "none", "unsafe"}, id \in Users}
     \cup {Forwarded("right", id) : id \in {who, "none", "unsafe"}}
     \cup {Forwarded("wrong", id) : id \in Users}

-----------------------------------------------------------------------------
(* The authenticators: the principal, or "rejected". *)

AllCapabilities == {"read", "write"}

Rejected == [id |-> "rejected", capabilities |-> {}]

Principal(id) == [id |-> id, capabilities |-> AllCapabilities]

NullAuthenticator(cred) == Principal("local")

(* Every configured token is compared; a text that is not ASCII is none.   *)
MultiTokenBearerAuthenticator(cred) ==
  IF cred.scheme = "bearer" /\ cred.token # "nonascii" /\ cred.token \in DOMAIN Tokens
  THEN Principal(Tokens[cred.token])
  ELSE Rejected

ValidPrincipalId(id) == id \notin {"none", "empty", "unsafe"}

MtlsAuthenticator(cred) ==
  IF cred.cert # "none" /\ ValidPrincipalId(cred.cert) THEN Principal(cred.cert) ELSE Rejected

(* Mutant: the forwarded identity is taken whenever it is there. *)
ReverseProxyTrusting(cred) ==
  IF cred.identity # "none" /\ ValidPrincipalId(cred.identity)
  THEN Principal(cred.identity)
  ELSE Rejected

(* The secret first; without it the forwarded identity is not looked at.   *)
ReverseProxyMtlsAuthenticator(cred) ==
  IF cred.secret = "right" /\ cred.identity # "none" /\ ValidPrincipalId(cred.identity)
  THEN Principal(cred.identity)
  ELSE Rejected

CapabilitiesFromClaims(cred) ==
  IF WriteScope = "none" \/ WriteScope \in cred.scopes THEN AllCapabilities ELSE {"read"}

(* A token that does not verify, or whose keys cannot be fetched, and a    *)
(* subject that is missing or empty, are rejected.                         *)
OAuthResourceAuthenticator(cred, fetched) ==
  IF cred.scheme = "bearer" /\ fetched /\ cred.valid /\ cred.sub \notin {"none", "empty"}
  THEN [id |-> cred.sub, capabilities |-> CapabilitiesFromClaims(cred)]
  ELSE Rejected

Authenticator(cred, fetched) ==
  CASE mode = "none"       -> NullAuthenticator(cred)
    [] mode = "bearer"     -> MultiTokenBearerAuthenticator(cred)
    [] mode = "mtls"       -> MtlsAuthenticator(cred)
    [] mode = "mtls-proxy" -> ReverseProxyMtlsAuthenticator(cred)
    [] mode = "oauth"      -> OAuthResourceAuthenticator(cred, fetched)

-----------------------------------------------------------------------------
(* The layers, outermost first. *)

NoRequest ==
  [at |-> "idle", kind |-> "none", size |-> "none", tool |-> "none", sender |-> "none",
   cred |-> NoCredential, principal |-> Rejected, status |-> 0]

HttpInit == mode \in Modes /\ http = [r \in Requests |-> NoRequest]

HttpIdle == mode = "none" /\ http = [r \in Requests |-> NoRequest]

Goes(r, place) == http' = [http EXCEPT ![r].at = place] /\ UNCHANGED mode

Answers(r, status) ==
  /\ http' = [http EXCEPT ![r] = [@ EXCEPT !.at = "answered", !.status = status]]
  /\ UNCHANGED mode

(* Bound: the size is declared on calls without a credential, and probes   *)
(* and preflights carry none.                                              *)
Arrive(r) ==
  /\ http[r].at = "idle"
  /\ \/ \E kind \in {"healthz", "readyz", "preflight"} :
          http' = [http EXCEPT ![r] = [@ EXCEPT !.at = "health", !.kind = kind]]
     \/ \E size \in {"small", "not_digits", "large"} :
          http' = [http EXCEPT ![r] =
                        [@ EXCEPT !.at = "health", !.kind = "call", !.size = size, !.tool = "read"]]
     \/ \E who \in Users \cup {"bearer"}, tool \in {"read", "write"} :
          \E cred \in Presentable(who) :
            http' = [http EXCEPT ![r] =
                          [@ EXCEPT !.at = "health", !.kind = "call", !.tool = tool,
                                    !.sender = who, !.cred = cred]]
  /\ UNCHANGED mode

(* Probes are answered before every other layer. *)
Health(r) ==
  /\ http[r].at = "health"
  /\ CASE http[r].kind = "healthz" -> Answers(r, 200)
       [] http[r].kind = "readyz"  -> Answers(r, 200) \/ Answers(r, 503)
       [] OTHER                    -> Goes(r, "size")

(* With cors_origins configured the CORS layer, still outside the others,  *)
(* answers a preflight itself.                                             *)
Cors(r) == http[r].at = "size" /\ http[r].kind = "preflight" /\ Answers(r, 200)

SizeLimit(r) ==
  /\ http[r].at = "size"
  /\ IF http[r].size = "large" THEN Answers(r, 413) ELSE Goes(r, "rate")

RateLimit(r) ==
  /\ http[r].at = "rate"
  /\ Goes(r, "authenticate") \/ Answers(r, 429)

(* The principal is bound to the request, or the request refused. *)
Bind(r, principal) ==
  IF principal = Rejected THEN Answers(r, 401)
  ELSE /\ http' = [http EXCEPT ![r] = [@ EXCEPT !.at = "application", !.principal = principal]]
       /\ UNCHANGED mode

(* A preflight passes without a principal; an authenticator that raises is *)
(* a 500, never a pass.                                                    *)
Authenticate(r) ==
  /\ http[r].at = "authenticate"
  /\ IF http[r].kind = "preflight" THEN Goes(r, "application")
     ELSE Answers(r, 500) \/ \E fetched \in BOOLEAN : Bind(r, Authenticator(http[r].cred, fetched))

(* The application refuses what is not a call; a call's tool resolves its  *)
(* principal (missing: an internal error, never the local operator) and is *)
(* denied a capability the principal lacks.                                *)
Application(r) ==
  /\ http[r].at = "application"
  /\ IF http[r].kind # "call" THEN Answers(r, 405)
     ELSE IF http[r].principal = Rejected THEN Answers(r, 500)
     ELSE IF http[r].tool \notin http[r].principal.capabilities THEN Answers(r, 403)
     ELSE Goes(r, "runs")

ToolReturns(r) == http[r].at = "runs" /\ Answers(r, 200)

RequestOver(r) ==
  /\ http[r].at = "answered"
  /\ http' = [http EXCEPT ![r] = NoRequest]
  /\ UNCHANGED mode

HttpNext ==
  \E r \in Requests :
    \/ Arrive(r) \/ Health(r) \/ Cors(r) \/ SizeLimit(r) \/ RateLimit(r)
    \/ Authenticate(r) \/ Application(r) \/ ToolReturns(r) \/ RequestOver(r)

HttpSpec == HttpInit /\ [][HttpNext]_httpVars

-----------------------------------------------------------------------------
(* A tool runs only as the person who sent the request, in every mode that *)
(* tells people apart: neither a forged token, nor an identity header sent *)
(* past the proxy lends a sender another's principal; and a mutating tool  *)
(* runs for an OAuth sender only when the write scope was granted or none  *)
(* is configured.                                                          *)
ServedAsSender ==
  \A r \in Requests : http[r].at = "runs" =>
    LET sent == http[r]
    IN /\ sent.principal.id = IF mode = "none" THEN "local" ELSE sent.sender
       /\ mode = "oauth" /\ sent.tool = "write" =>
            WriteScope = "none" \/ WriteScope \in sent.cred.scopes

-----------------------------------------------------------------------------
(* The inductive invariant: a request carries what its sender can present, *)
(* and a principal, once it has one, that is the sender's.                 *)
HttpTypeOK ==
  /\ mode \in Modes
  /\ DOMAIN http = Requests
  /\ \A r \in Requests : DOMAIN http[r] = DOMAIN NoRequest

Sent(r) ==
  \/ http[r].sender = "none" /\ http[r].cred = NoCredential
  \/ http[r].sender \in Users \cup {"bearer"} /\ http[r].cred \in Presentable(http[r].sender)

(* The principal that credential gives a sender in this mode. *)
IsPrincipalOf(principal, who, cred) ==
  /\ principal.id = IF mode = "none" THEN "local" ELSE who
  /\ mode = "oauth" /\ "write" \in principal.capabilities =>
       WriteScope = "none" \/ WriteScope \in cred.scopes

RequestOK(r) ==
  /\ Sent(r)
  /\ http[r].principal = Rejected
       \/ IsPrincipalOf(http[r].principal, http[r].sender, http[r].cred)
  /\ http[r].at = "idle" => http[r].principal = Rejected
  /\ http[r].at = "runs" =>
       http[r].principal # Rejected /\ http[r].tool \in http[r].principal.capabilities

HttpInv == HttpTypeOK /\ \A r \in Requests : RequestOK(r)

=============================================================================
