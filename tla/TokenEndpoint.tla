---------------------------- MODULE TokenEndpoint ----------------------------
(***************************************************************************)
(* The way of a request to op's token, introspection and userinfo          *)
(* endpoints, through Hamnir's middleware (internal/provider/exchange.go,  *)
(* presentation.go, wired in internal/server/server.go) and the Storage methods that decide *)
(* about clients, audiences and claims (internal/provider/storage.go,      *)
(* models.go, internal/persona/claims.go).                                 *)
(*                                                                         *)
(* Requests are served concurrently; they share the configuration, which   *)
(* nobody may write, and the tokens.  Lifetimes, sessions and revocation   *)
(* are in Sessions.  A credential is written in plain text in a form body  *)
(* and url-encoded in a Basic header: QueryEscape and QueryUnescape are    *)
(* net/url's, and the latter fails (Undecodable) on a malformed escape.    *)
(***************************************************************************)
CONSTANTS
  Procs,             \* requests served at the same time
  Configs,           \* the configurations the server may be started with
  Requests,          \* the requests it may get
  Name,              \* subjects, scopes, audiences, token types
  Text, Wire,        \* credentials, plain and encoded
  QueryEscape(_), QueryUnescape(_), Undecodable,
  ConfigArray        \* the array behind the configured list of audiences

ASSUME EncodingAssumption ==
  /\ "" \in Text /\ Undecodable \notin Text
  /\ \A s \in Text : QueryEscape(s) \in Wire /\ QueryUnescape(QueryEscape(s)) = s
  /\ "" \in Wire /\ QueryUnescape("") = ""
  /\ \A w \in Wire : QueryUnescape(w) \in Text \cup {Undecodable}

Kinds == {"exchange", "code", "refresh", "introspect", "userinfo"}

ASSUME NameAssumption == {"", "openid", "profile", "email"} \subseteq Name

(* `basic` is what r.BasicAuth() returns: nothing, unless it was `sent`.   *)
ASSUME RequestAssumption ==
  \A in \in Requests :
    /\ in.kind \in Kinds
    /\ in.parses \in BOOLEAN /\ in.challenge \in BOOLEAN
    /\ in.basic \in [sent : BOOLEAN, id : Wire, secret : Wire]
    /\ ~in.basic.sent => in.basic.id = "" /\ in.basic.secret = ""
    /\ in.body \in [id : Text, secret : Text]
    /\ {in.subjectToken, in.subjectType, in.requested} \subseteq Name
    /\ in.scopes \subseteq Name /\ in.audience \subseteq Name

(* `own` says whether a client's audiences are set at all, if only to an   *)
(* empty list.  No client has an empty id (config.Validate).               *)
ASSUME ConfigAssumption ==
  \A c \in Configs :
    /\ c.audiences \subseteq Name
    /\ \A id \in DOMAIN c.clients :
         /\ id \in Text \ {""} /\ c.clients[id].secret \in Text
         /\ c.clients[id].own \in BOOLEAN /\ c.clients[id].audiences \subseteq Name
    /\ DOMAIN c.personas \subseteq Name
    /\ \A token \in DOMAIN c.tokens : c.tokens[token] \in Name

ASSUME ArrayAssumption == ConfigArray \notin Procs

VARIABLES
  cfg,               \* the configuration, as loaded
  req,               \* the requests in progress and answered
  spare,             \* what is behind the last element of a list, in its array
  accessTokens,      \* the access tokens made, with the requests they are `from`
  refreshTokens,     \* the refresh tokens made
  idTokens,          \* the id tokens made
  introspections,    \* the introspections answered
  userinfos          \* the answers of the userinfo endpoint

tokens == <<accessTokens, refreshTokens, idTokens, introspections, userinfos>>
vars == <<cfg, req, spare, tokens>>

Idle == [pc |-> "idle"]
Arrays == Procs \cup {ConfigArray}
NoLogin == [client |-> "", sub |-> "", scopes |-> {}]

Init ==
  /\ cfg \in Configs
  /\ req = [p \in Procs |-> Idle]
  /\ spare = [a \in Arrays |-> ""]
  /\ accessTokens = {} /\ refreshTokens = {} /\ idTokens = {}
  /\ introspections = {} /\ userinfos = {}

-----------------------------------------------------------------------------
(* Clients, audiences and claims, as functions of the configuration.  A    *)
(* `Faulty...` operator is never used: it is the definition after it with  *)
(* a plausible bug, for a property to tell apart.                          *)

Permissive == DOMAIN cfg.clients = {}
Known(id) == Permissive \/ id \in DOMAIN cfg.clients

(* GetClientByClientID: what op is told of how the client authenticates.   *)
IsPublic(id, presented) ==
  IF Permissive THEN ~presented ELSE cfg.clients[id].secret = ""

AuthorizeClientIDSecret(id, secret) ==
  Permissive \/ (id \in DOMAIN cfg.clients /\ cfg.clients[id].secret = secret)

audienceFor(id) ==
  IF id \in DOMAIN cfg.clients /\ cfg.clients[id].own
    THEN cfg.clients[id].audiences
    ELSE cfg.audiences

(* GetAudience of a code's and of a refresh token's request: its slice is  *)
(* a clone of the configured list, in an array of its own.                 *)
FaultyGetAudience(p, id) ==
  [items |-> IF audienceFor(id) = {} THEN {id} ELSE audienceFor(id),
   array |-> IF audienceFor(id) = {} THEN p ELSE ConfigArray]
GetAudience(p, id) ==
  [items |-> IF audienceFor(id) = {} THEN {id} ELSE audienceFor(id), array |-> p]

(* A claim stands for all that OpenID Connect Core puts under its scope.   *)
standardScopeClaims ==
  [profile |-> {"name"}, email |-> {"email"}, phone |-> {"phone_number"}, address |-> {"address"}]
StandardClaimsOf(scopes) ==
  UNION {standardScopeClaims[s] : s \in scopes \cap DOMAIN standardScopeClaims}
standardClaims == {"sub"} \cup StandardClaimsOf(DOMAIN standardScopeClaims)

GatedClaims(scopes) == UNION {cfg.scopes[s] : s \in scopes \cap DOMAIN cfg.scopes}
Gated == GatedClaims(DOMAIN cfg.scopes)

FaultyReleaseClaims(claims, scopes) ==   \* the configured gates are tried first
  {c \in claims :
    \/ c \in GatedClaims(scopes)
    \/ c \notin Gated /\ c \in {"sub"} \cup StandardClaimsOf(scopes)
    \/ c \notin Gated /\ c \notin standardClaims}
ReleaseClaims(claims, scopes) ==
  {c \in claims :
    \/ c \in {"sub"} \cup StandardClaimsOf(scopes)
    \/ c \notin standardClaims /\ c \in GatedClaims(scopes)
    \/ c \notin standardClaims /\ c \notin Gated}

releasedClaims(sub, scopes) ==
  IF sub \in DOMAIN cfg.personas
    THEN ReleaseClaims(cfg.personas[sub], scopes) \ {"sub"}
    ELSE {}

FaultyWithoutUserinfoScopes(scopes) == scopes
withoutUserinfoScopes(scopes) == scopes \ {"profile", "email", "address", "phone"}

-----------------------------------------------------------------------------
(* A request arrives.  A code, a refresh token or an access token comes    *)
(* with the login it was made for; an exchange has yet to find its own.    *)

Plain(c) == [id |-> QueryUnescape(c.id), secret |-> QueryUnescape(c.secret)]

(* The credentials the caller wrote: in the header, or else in the body.   *)
Written(in) == IF in.basic.sent THEN Plain(in.basic) ELSE in.body

Logins(in) ==
  CASE in.kind = "exchange" -> {NoLogin}
    [] in.kind = "code" ->
         {[client |-> Written(in).id, sub |-> s, scopes |-> in.scopes] : s \in DOMAIN cfg.personas}
    [] in.kind = "refresh" -> refreshTokens
    [] in.kind \in {"introspect", "userinfo"} ->
         {[client |-> t.client, sub |-> t.sub, scopes |-> t.scopes] : t \in accessTokens}

Arrive(p, in) ==
  /\ req[p] = Idle
  /\ \E t \in Logins(in) :
       req' = [req EXCEPT ![p] =
         [pc |-> "received", in |-> in, login |-> t, auth |-> in.basic, presented |-> FALSE,
          aud |-> [items |-> in.audience, array |-> p], requested |-> in.requested, answer |-> ""]]
  /\ UNCHANGED <<cfg, spare, tokens>>

Goto(p, pc) == req' = [req EXCEPT ![p].pc = pc]
Answer(p, answer) == req' = [req EXCEPT ![p].pc = "done", ![p].answer = answer]

-----------------------------------------------------------------------------
(* DefaultExchangeAudience, the outer middleware.                          *)

FaultyBridged(in) ==   \* the credentials go into the header unescaped
  IF ~in.basic.sent /\ in.body.id # ""
    THEN [sent |-> TRUE, id |-> in.body.id, secret |-> in.body.secret]
    ELSE in.basic
Bridged(in) ==
  IF ~in.basic.sent /\ in.body.id # ""
    THEN [sent |-> TRUE, id |-> QueryEscape(in.body.id), secret |-> QueryEscape(in.body.secret)]
    ELSE in.basic

FaultyDecodes(auth) == QueryUnescape(auth.id) # Undecodable
Decodes(auth) == QueryUnescape(auth.id) # Undecodable /\ QueryUnescape(auth.secret) # Undecodable

FaultyDefaultAudience(in, auth) == IF in.audience # {} THEN in.audience ELSE audienceFor(auth.id)
DefaultAudience(in, auth) ==
  IF in.audience # {} THEN in.audience ELSE audienceFor(QueryUnescape(auth.id))

DefaultExchangeAudience(p) ==
  /\ req[p].pc = "received"
  /\ LET in == req[p].in
         auth == Bridged(in)
     IN \/ ~in.parses /\ Answer(p, "invalid_request")
        \/ in.parses /\ in.kind # "exchange" /\ Goto(p, "defaulted")
        \/ in.parses /\ in.kind = "exchange" /\ ~Decodes(auth) /\ Answer(p, "invalid_client")
        \/ /\ in.parses /\ in.kind = "exchange" /\ Decodes(auth)
           /\ req' = [req EXCEPT ![p].pc = "defaulted", ![p].auth = auth,
                                 ![p].aud.items = DefaultAudience(in, auth)]
  /\ UNCHANGED <<cfg, spare, tokens>>

(* ObserveClientPresentation, installed when no clients are configured; it *)
(* sees the header the outer middleware may have written.                  *)
FaultyPresentsSecret(auth, body) == auth.sent \/ body.secret # ""
PresentsSecret(auth, body) == auth.secret # "" \/ body.secret # ""

ObserveClientPresentation(p) ==
  /\ req[p].pc = "defaulted" /\ Permissive
  /\ req' = [req EXCEPT ![p].pc = "observed",
                        ![p].presented = PresentsSecret(req[p].auth, req[p].in.body)]
  /\ UNCHANGED <<cfg, spare, tokens>>

-----------------------------------------------------------------------------
(* op's endpoints take over.                                               *)

AtOp(p) == req[p].pc = IF Permissive THEN "observed" ELSE "defaulted"

(* An exchange identifies its client by the header only, and so does an    *)
(* introspection, which must have one.  op unescapes the header; where     *)
(* that fails it refuses, but on an exchange it goes on with a nil request *)
(* and panics (exchange.go:195).                                           *)
Seen(p) ==
  IF req[p].in.kind \in {"exchange", "introspect"} THEN Plain(req[p].auth) ELSE Written(req[p].in)

Unescapes(p) == Seen(p).id # Undecodable /\ Seen(p).secret # Undecodable

(* A public client need not authenticate, but must have used PKCE for its  *)
(* code; an exchange and an introspection always compare the secret.  At   *)
(* the userinfo endpoint the access token is all there is.                 *)
Admitted(p) ==
  LET in == req[p].in
      c  == Seen(p)
  IN \/ in.kind = "userinfo"
     \/ /\ Unescapes(p) /\ Known(c.id)
        /\ CASE in.kind = "exchange"   -> AuthorizeClientIDSecret(c.id, c.secret)
             [] in.kind = "introspect" -> in.basic.sent /\ AuthorizeClientIDSecret(c.id, c.secret)
             [] OTHER ->
                  /\ req[p].login.client = c.id
                  /\ IF IsPublic(c.id, req[p].presented)
                       THEN in.kind = "code" => in.challenge
                       ELSE AuthorizeClientIDSecret(c.id, c.secret)

Refuse(p) ==
  /\ AtOp(p) /\ ~Admitted(p)
  /\ Answer(p, IF req[p].in.kind = "exchange" /\ ~Unescapes(p) THEN "panic" ELSE "invalid_client")
  /\ UNCHANGED <<cfg, spare, tokens>>

Admit(p) ==
  /\ AtOp(p) /\ Admitted(p)
  /\ Goto(p, "admitted")
  /\ UNCHANGED <<cfg, spare, tokens>>

-----------------------------------------------------------------------------
(* The exchange policy: VerifyExchangeSubjectToken decides about what op   *)
(* cannot resolve itself (here, an access token made earlier), and         *)
(* ValidateTokenExchangeRequest completes the request.                     *)

Subjects(in) ==
  CASE in.subjectType = "access_token" /\ in.subjectToken = "issued" ->
         {t.sub : t \in accessTokens}
    [] in.subjectType = "persona" /\ in.subjectToken \in DOMAIN cfg.tokens ->
         {cfg.tokens[in.subjectToken]}
    [] OTHER -> {}

Issuable == {"access_token", "refresh_token", "id_token"}
RequestedType(in) == IF in.requested = "" THEN "access_token" ELSE in.requested
Scopes(in) == IF in.scopes = {} THEN {"openid", "profile", "email"} ELSE in.scopes

RefuseExchange(p) ==
  /\ req[p].pc = "admitted" /\ req[p].in.kind = "exchange"
  /\ Subjects(req[p].in) = {} \/ RequestedType(req[p].in) \notin Issuable
  /\ Answer(p, "invalid_request")
  /\ UNCHANGED <<cfg, spare, tokens>>

ValidateTokenExchangeRequest(p) ==
  /\ req[p].pc = "admitted" /\ req[p].in.kind = "exchange"
  /\ RequestedType(req[p].in) \in Issuable
  /\ \E s \in Subjects(req[p].in) :
       req' = [req EXCEPT ![p].pc = "granted", ![p].requested = RequestedType(req[p].in),
         ![p].login = [client |-> Seen(p).id, sub |-> s, scopes |-> Scopes(req[p].in)]]
  /\ UNCHANGED <<cfg, spare, tokens>>

(* A code or a refresh token is resolved (TokenRequestByRefreshToken);     *)
(* audiences come from the configuration, whatever they were before.       *)
ResolveLogin(p) ==
  /\ req[p].pc = "admitted" /\ req[p].in.kind \in {"code", "refresh"}
  /\ req' = [req EXCEPT ![p].pc = "granted", ![p].requested = "all",
                        ![p].aud = GetAudience(p, req[p].login.client)]
  /\ UNCHANGED <<cfg, spare, tokens>>

-----------------------------------------------------------------------------
(* op makes the tokens: one per exchange, all three otherwise.             *)

StoreAccessToken(p) ==
  /\ req[p].pc = "granted" /\ req[p].requested # "id_token"
  /\ LET t == req[p].login
     IN /\ accessTokens' = accessTokens \cup
             {[client |-> t.client, sub |-> t.sub, scopes |-> t.scopes, aud |-> req[p].aud.items,
               claims |-> releasedClaims(t.sub, withoutUserinfoScopes(t.scopes)),
               from |-> req[p].in]}
        /\ refreshTokens' = IF req[p].requested = "access_token" THEN refreshTokens
                                                                 ELSE refreshTokens \cup {t}
  /\ IF req[p].requested = "all" THEN Goto(p, "stored") ELSE Answer(p, "tokens")
  /\ UNCHANGED <<cfg, spare, idTokens, introspections, userinfos>>

(* op adds the client to the audience with Go's append, which writes into  *)
(* the list's own array if that has room (it may: assume it has) ...       *)
AppendClient(p) ==
  /\ \/ req[p].pc = "stored"
     \/ req[p].pc = "granted" /\ req[p].requested = "id_token"
  /\ spare' = [spare EXCEPT ![req[p].aud.array] =
                 IF req[p].login.client \in req[p].aud.items THEN @ ELSE req[p].login.client]
  /\ Goto(p, "appended")
  /\ UNCHANGED <<cfg, tokens>>

(* ... fills in the claims (SetUserinfoFromTokenExchangeRequest and        *)
(* SetUserinfoFromRequest) and signs what is in the list then.             *)
SignIdToken(p) ==
  /\ req[p].pc = "appended"
  /\ LET t == req[p].login
         r == req[p].aud
     IN idTokens' = idTokens \cup
          {[client |-> t.client, asked |-> r.items,
            aud |-> r.items \cup IF t.client \in r.items THEN {} ELSE {spare[r.array]},
            scopes |-> t.scopes, claims |-> releasedClaims(t.sub, t.scopes)]}
  /\ Answer(p, "tokens")
  /\ UNCHANGED <<cfg, spare, accessTokens, refreshTokens, introspections, userinfos>>

(* SetIntrospectionFromToken.  The entry of the access token may have      *)
(* expired, been revoked or gone with a restart.                           *)
FaultyMayIntrospect(id) == Known(id)
MayIntrospect(id) == Permissive \/ (id \in DOMAIN cfg.clients /\ cfg.clients[id].secret # "")

Introspect(p) ==
  /\ req[p].pc = "admitted" /\ req[p].in.kind = "introspect"
  /\ LET by == Seen(p).id
         t  == req[p].login
     IN \/ /\ MayIntrospect(by)
           /\ introspections' = introspections \cup
                {[by |-> by, secret |-> Seen(p).secret, scopes |-> t.scopes,
                  claims |-> releasedClaims(t.sub, t.scopes)]}
           /\ Answer(p, "active")
        \/ Answer(p, "inactive") /\ UNCHANGED introspections
  /\ UNCHANGED <<cfg, spare, accessTokens, refreshTokens, idTokens, userinfos>>

(* SetUserinfoFromToken.                                                   *)
Userinfo(p) ==
  /\ req[p].pc = "admitted" /\ req[p].in.kind = "userinfo"
  /\ LET t == req[p].login
     IN \/ /\ userinfos' = userinfos \cup
                {[sub |-> t.sub, scopes |-> t.scopes, claims |-> releasedClaims(t.sub, t.scopes)]}
           /\ Answer(p, "active")
        \/ Answer(p, "inactive") /\ UNCHANGED userinfos
  /\ UNCHANGED <<cfg, spare, accessTokens, refreshTokens, idTokens, introspections>>

Next ==
  \E p \in Procs :
    \/ \E in \in Requests : Arrive(p, in)
    \/ DefaultExchangeAudience(p) \/ ObserveClientPresentation(p)
    \/ Refuse(p) \/ Admit(p)
    \/ RefuseExchange(p) \/ ValidateTokenExchangeRequest(p) \/ ResolveLogin(p)
    \/ StoreAccessToken(p) \/ AppendClient(p) \/ SignIdToken(p)
    \/ Introspect(p) \/ Userinfo(p)

Spec == Init /\ [][Next]_vars

-----------------------------------------------------------------------------
Id == Text \cup {Undecodable}
Header == [sent : BOOLEAN, id : Wire, secret : Wire]
Login == [client : Id, sub : Name, scopes : SUBSET Name]
Stages == {"received", "defaulted", "observed", "admitted", "granted", "stored", "appended", "done"}
Answers == {"", "invalid_request", "invalid_client", "panic", "tokens", "active", "inactive"}
Working ==
  [pc : Stages, in : Requests, login : Login, auth : Header, presented : BOOLEAN,
   aud : [items : SUBSET (Id \cup Name), array : Arrays],
   requested : Name \cup Issuable \cup {"all"}, answer : Answers]

(* Type correctness; in particular a header the middleware wrote is well   *)
(* encoded.                                                                *)
TypeOK ==
  /\ cfg \in Configs
  /\ req \in [Procs -> Working \cup {Idle}]
  /\ spare \in [Arrays -> Id]
  /\ refreshTokens \subseteq Login
  /\ \A t \in accessTokens : [client |-> t.client, sub |-> t.sub, scopes |-> t.scopes] \in Login

(* op's exchange handler goes on with a nil request when it cannot decode  *)
(* the Basic credentials; the middleware answers those first, by any       *)
(* method and whoever wrote the header (exchange.go:195).                  *)
OpNeverPanics == \A p \in Procs : req[p] # Idle => req[p].answer # "panic"

RightCredentials(in) ==
  LET w == Written(in)
  IN /\ w.id # Undecodable /\ w.secret # Undecodable
     /\ Permissive \/ (w.id \in DOMAIN cfg.clients /\ w.secret = cfg.clients[w.id].secret)

(* An exchange fails for its client exactly if the credentials as the      *)
(* caller wrote them, in a header or a body, are not those of a registered *)
(* client, or cannot be read: the way through two encodings and the        *)
(* bridge loses nothing and admits nobody else (exchange.go:186-194).      *)
CredentialsDecide ==
  \A p \in Procs :
    (req[p].pc = "done" /\ req[p].in.kind = "exchange" /\ req[p].in.parses) =>
      (req[p].answer = "invalid_client" <=> ~RightCredentials(req[p].in))

(* Whatever way a client's token came about, exchange, code or refresh, it *)
(* has the same audiences, unless the exchange named its own: the audience *)
(* does not flip when an exchanged token is refreshed (exchange.go:143).   *)
(* With none configured a code's token names its client, and an exchange   *)
(* leaves the choice to op.                                                *)
AudienceParity ==
  \A t, u \in accessTokens :
    (t.client = u.client /\ t.from.audience = {} /\ u.from.audience = {}) =>
      \/ t.aud = u.aud
      \/ t.aud \subseteq {t.client} /\ u.aud \subseteq {t.client}

(* An id token is for the audience of its request and for its own client,  *)
(* however many requests op appends to lists at once (storage.go:517).     *)
IdTokenNamesItsClient == \A t \in idTokens : t.aud = t.asked \cup {t.client}

(* No access token carries a standard claim, be it exchanged or from a     *)
(* login: those are for userinfo and the id token (exchange.go:119).       *)
AccessTokensOmitStandardClaims ==
  \A t \in accessTokens : t.claims \cap standardClaims = {}

(* A standard claim is released by its own scope only, in id tokens,       *)
(* introspections and userinfo: an entry of the configured scopes that     *)
(* names it has no effect (claims.go:32).                                  *)
ScopeMapAddsNoStandardClaim ==
  \A t \in idTokens \cup introspections \cup userinfos :
    t.claims \cap standardClaims \subseteq StandardClaimsOf(t.scopes)

(* Nobody gets tokens for a code with neither PKCE nor a secret: in        *)
(* permissive mode an empty Basic password must not make the fabricated    *)
(* client a confidential one (presentation.go:33).                         *)
CodesNeedProof ==
  \A t \in accessTokens :
    t.from.kind = "code" =>
      t.from.challenge \/ t.from.basic.secret # "" \/ t.from.body.secret # ""

(* Public clients, whom an exchange admits by their name alone, learn      *)
(* nothing by introspection, although it admits clients by the same method *)
(* (storage.go:588).                                                       *)
IntrospectionIsAuthenticated ==
  \A i \in introspections :
    ~Permissive => i.secret # "" /\ i.secret = cfg.clients[i.by].secret
==============================================================================
