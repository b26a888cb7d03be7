# Hamnir in TLA+

Hamnir is a development OpenID Connect provider: a person picks a *persona* on a
page instead of typing a password, and the relying party gets real tokens. The
protocol endpoints come from the library `op` (zitadel/oidc); Hamnir supplies
`op.Storage`, the picker pages, a refresh-token manager and the configuration.
This directory holds TLA+ models of its parts, the TLC configurations
that check them and TLAPS proofs about them.

    tlc -config Sessions.cfg MCSessions.tla        # one of the runs of PROJECT.json
    tlapm RefreshTokensProofs.tla                  # one of the proof modules

## The system

| Component | State | Operations | What is hard |
|---|---|---|---|
| Refresh-token manager, `internal/provider/tokens.go` | the denylist `revoked` (id to moment), the lifetime | `Issue`, `Parse`, `decode`, `Revoke` | the denylist is pruned lazily and lost on restart, tokens are self-contained and are not; `Parse` is three separate reads |
| Sessions and tokens, `storage.go` | `sessions`, `accessTokens` | complete a login, create tokens, rotate, log out, revoke | a request is several critical sections of two locks; sessions and tokens expire by different clocks |
| Auth requests and codes, `storage.go`, `web/login.go` | `authRequests`, `codes` | create, hint, complete, save code, redeem, delete, evict | `op` works on snapshots; reloads, replays and eviction; a reverse index kept by hand |
| Device authorization, `device.go`, `web/login.go` | `deviceRequests`, `deviceUserCodes` | store, look up, approve, deny, poll, prune | short user codes are reused, a decision races the deadline and the prune, pages go stale |
| Token exchange, `exchange.go`, `presentation.go` | a request on its way (`exchangeTokens` is read-only) | bridge credentials, default the audience, observe the secret; verify and validate the exchange | credentials cross two encodings; `op` panics on some; policy that codes get from `Storage` an exchange gets from a middleware |
| Claims, clients, personas | none after start | release claims, resolve clients and audiences, authenticate clients, introspect, userinfo | functions of the configuration, but used by four flows that must agree; slices of the configuration are handed to `op`, which appends to them |
| Configuration, `internal/config` | none after start | normalise, validate, resolve references to static files | every other part relies on what it rejects; it checks a reference on disk that browsers follow by URL; it compares subs before it rewrites them |
| Server, gzip, static files, `internal/server`, `internal/static` | one writer per response | route, compress, cache, serve files | the header goes out before the body it describes, through three nested writers |
| Process, `internal/command`, `cmd/hamnir` | the main goroutine, the listener's, a channel | load, build, listen, drain, exit; validate, init | the signal, the listener and the requests in flight come in any order |
| Pages, discovery | none shared | rendering, hints | presentation, but for who a hint means and that nobody is lost from the picker |

They interact by calls. `op`'s handlers call `Storage` from one goroutine per
HTTP request. `Storage` protects its six maps with one mutex `s.mu`; the manager
has a lock of its own, and no method holds both. The pages call
`AuthenticateAndComplete`, `LoginHint`, `LookupDeviceUserCode`, `ApproveDevice`
and `DenyDevice`. A session id (`sid`) is the thread between the parts: a login,
an exchange or a device authorization mints it, refresh tokens carry it from
rotation to rotation, `sessions` lets a logout find it and the denylist bars it.

What would make each part correct:

* the manager: a revoked id is refused for as long as a token with it could be
  accepted, although entries are dropped;
* sessions: a logout finds and ends everything a login led to, a rotated token
  stays dead, one client's requests do not cost another client its tokens;
* auth requests: a code leads to exactly the login it was made for, a login has
  one persona, an answered login is over, a young one is not evicted;
* the token endpoint: a client is admitted exactly for its own credentials, in whatever
  form it sends them; audiences and claims do not depend on the way a token came about;
* configuration: what loads names every persona uniquely and refers to files that a browser gets;
* process and responses: a signal ends the process, with success only if every request was
  answered; a response is what its header says;
* devices: a device learns exactly what the person decided about *it*, and every
  polling device is answered.

## The modules

Every action is one critical section, or the lock-free step around it; where a
handler has several, a worker in `Reqs` (or `Parsers`) carries the handler's local variables
between them, so other requests interleave at exactly the points where the code
lets them. Two things are idealised everywhere. The clock is an
integer that only a `Tick` moves; it stands for the second-resolution times in the
tokens and the finer ones in the maps alike. Identifiers come from a counter, as
`randID` does not repeat.

Operators named `Faulty...` (and `UndrawnSaveAuthCode`, `TimelessReply`) are not
used by any specification: each is the definition that follows it with a
plausible bug, and `PROJECT.json` pairs it with the property that detects it.

**`RefreshTokens`** is the manager. `Issue`, `Revoke` and the three steps of
`Parse` (`Decode`, `CheckSid`, `CheckJti`) are the code's; `Accepts` is a `Parse`
nothing interrupts. `Restart` empties the denylist and may load another lifetime.
`history` is the denylist as it would be without pruning. `NoId` is a string
that is no identifier, which `RevokeToken` may pass to `Revoke`.
A token is `Barred` when an id of it was revoked in this boot and the entry's
life, one ttl, covers the token's: a token of an earlier boot with a longer
lifetime, or one signed after the revocation, can outlive the entry, and
Hamnir does not claim otherwise.

**`Sessions`** is everything `Storage` does with `sessions`, `accessTokens` and
the manager, which it instantiates (`RT`). The request kinds and their steps:

| Request | Steps |
|---|---|
| picker login | `Login` (`AuthenticateAndComplete`) |
| code exchange | `RedeemBegin`, `StoreAccess`, `IssueRefresh`, `FinishCode` |
| refresh | `RefreshBegin` (`Parse`), `StoreAccess`, `IssueRefresh`, `Rotate`, `Touch` |
| token exchange, device grant | `GrantBegin`, `Touch`, `StoreAccess`, and `IssueRefresh` if a refresh token is asked for |
| logout | `Logout`, a `LogoutRevoke` per sid in any order (a Go map is ranged over), `LogoutEnd` |
| revocation | `RevokeRefreshBegin`, `RevokeAccessBegin`, `RevokeJtiBegin` or `RevokeRawBegin`; then `RevokeAccess`, or `RevokeRaw` / `RevokeOther`, `RevokeCheck`, `RevokeBar` |

`Parse` is one step here. A parse that says yes saw the sid clear and then the
jti clear. Nothing else a refresh does precedes it, and only a `Revoke` of that
sid between the two looks could tell, so the refresh is placed at the first look, where
rotations of the same token by others are still ahead; `RefreshTokens`
checks the three reads against everything. The clock reads just before a lock
are folded into the section. `EvictLogin` may drop a login at any time, since its
age is kept in `AuthRequests`. `Traffic` chooses the request kinds of a run.

What `RevokeToken` is given depends on how `op` came by it. That part is external, modelled from zitadel/oidc's
revocation handler, which the repository depends on and does not contain. A refresh token that
`GetRefreshTokenInfo` resolved arrives as its sid; it refuses one of another client, and `op` does not ask it
under a `token_type_hint` of access tokens. `op` then tries the token as an access token. Both kinds are signed with one key, and
`NewStorage` gives refresh tokens `cfg.Issuer`, so with a configured issuer (`StaticIssuer`) a refresh token
passes for an access token (`ReadsAsAccess`) and arrives as its own jti (`RevokeJtiBegin`), for which
`RevokeToken` has no client to compare. Where every host is its own issuer it arrives as the JWT itself
(`RevokeRawBegin`), whose client `RevokeToken` does check. It follows as well that with a configured issuer a client
which revokes its own refresh token under the wrong hint bars that one token and not the family.

**`AuthRequests`** is the authorization-code flow. `GetLogin` and `AutoComplete`
are the two sections of a hinted login, `CallbackBegin` and `SaveAuthCode` of the callback,
`RedeemBegin` and `RedeemAnswer`/`RedeemReject` of the exchange. Of
`login_hint` and `prompt` it keeps the persona that would be logged straight in, if any.

**`DeviceFlow`** is the device flow, with its two maps, the open pages and the
devices. `Poll` is `op`'s token endpoint: it reads the state in one section and
derives the answer from it. **`DeviceGrant`** is what the flow promises, without
clock, user codes or pruning; `DeviceFlow` implements it with `verdict` and
`outcome` as they are and `sure` the devices that have kept to their interval and
seen no restart. `device.go:160-166` argues why that suffices: the grace exceeds
the interval (`GraceAssumption`). `Poll` is what a device does until it is answered,
`PollAgain` what one does that lost the answer.

**`TokenEndpoint`** is the way of a request to the token, introspection and userinfo endpoints:

| Stage | Actions | Code |
|---|---|---|
| received | `Arrive` | external |
| defaulted | `DefaultExchangeAudience` | the outer middleware: parse failures, `Bridged` credentials, `Decodes`, `DefaultAudience` |
| observed | `ObserveClientPresentation` | the inner middleware, installed in permissive mode only |
| admitted | `Refuse`, `Admit` | `op`, asking `GetClientByClientID` (`Known`, `IsPublic`) and `AuthorizeClientIDSecret`; the panic of its exchange handler is an answer of `Refuse` |
| granted | `RefuseExchange`, `ValidateTokenExchangeRequest`, `ResolveLogin` | the exchange policy; `TokenRequestByRefreshToken` or the code's request |
| stored, appended, done | `StoreAccessToken`, `AppendClient`, `SignIdToken`, `Introspect`, `Userinfo` | `storeAccessToken`, the claims methods, `SetIntrospectionFromToken`, `SetUserinfoFromToken` |

Credentials are plain (`Text`) in a body and encoded (`Wire`) in a header, with
net/url's two functions as constant operators that the code's decision is
made through. An audience is a set and the array it lies in: Go's `append` writes
behind the last element if the array has room, so two requests whose lists share an array would
write into the same place, `spare[array]`. The configuration's array is
`ConfigArray`, a clone's is its request's. A claim stands for everything under its standard scope.
What `op` does with a request is read from how the code here meets it
(`exchange.go:143-213`, `presentation.go:21-46`, `models.go:154-187`). A parameter
`audience=` that is present but empty is not among the requests.

That an access token's entry has expired, been revoked or been lost is a choice `Introspect` and
`Userinfo` make: its life is in `Sessions`.

**`Configuration`** is functions: `Normalised`, `Valid` and its parts (one per block of
`Validate`), `resolveStaticClaims`, and from them `Loads` (a file loads) and `Load` (what it
loads as); `BySub`, `ByToken`, `Page` and `hintedSub`, which read the result; and `Route`, what
becomes of a path below `/.static/`. Where a slash matters, in URLs, claims and mount names, a text is the
sequence of its segments, since all the code does with it is split, trim, join and compare at slashes. `Disk`, the
sets of well-formed origins, colours and keys and `CaseFolding` stand for the file system and for parsers.
A list filtered in order is `InOrder` of the indices that pass, each at its rank: `Clean` keeps a path's segments
so, and `Page` is the `Cards` of the groups in `Sections` and then of those in `Extras`.

**`Serve`** is the process that uses them:

| Who | Actions | Code |
|---|---|---|
| main goroutine | `LoadConfig`, `Build`, `SelectServeErr` or `SelectDone`, `Drained` or `DrainTimesOut`, `Exit` | `serve.go:23-72`, `server.New`, `main` |
| `ListenAndServe` | `Listen`, `ListenerCloses`, `AcceptFails` | the goroutine at `serve.go:46-52` |
| anybody | `Signal` | `signal.NotifyContext` |
| a handler's goroutine | `WriteHeader`, `Write`, `Return` | the calls on `gzipResponseWriter` and `uncacheErrors` |
| a browser | `Accept`, `FollowRedirect` | external |

What `net/http` answers of its own (revalidation, ranges, redirects to a clean path or away
from `index.html`) is in `AssetReply`, `FileReply` and `RedirectedTo`. `select` with both channels
ready is a free choice. `DrainTimesOut` may come as soon as something is in flight: the ten
seconds are not measured.

`MCSessions`, `MCAuthRequests` and `MCDeviceFlow` add the symmetry sets used where
only safety is checked; `MCTokenEndpoint` also the configurations, the requests and the encoding, `MCServe` the disk and the files.
Each module's proofs are in a module of their own: **`RefreshTokensProofs`**, **`SessionsProofs`**,
**`AuthRequestsProofs`**, **`DeviceFlowProofs`**, **`TokenEndpointProofs`**, **`ServeProofs`**, and
**`ConfigurationProofs`** with lemmas that `ServeProofs` uses.

## What the runs show

Passing runs:

| Run | Shows | Bounds |
|---|---|---|
| `refresh_tokens` | `RevokedUntilExpiry`: pruning never revives a revoked token before its expiry. `ParseHonoursRevocation`: nor does a parse torn by revocations and prunes | 3 ids (a sid and two tokens, or two sids and a token), lifetimes 1 and 2, leeway 1, time 4: enough to issue, revoke, expire, prune, restart with the other lifetime. One parser: parses only read, so two cannot affect each other |
| `sessions_logins` | `SessionCoversToken`: logout can find the session of every usable token for a ttl after it was last seen. `RotationRetires`: a rotated token of this boot's lifetime stays dead. `LogoutEndsFamily`: after a logout nothing with its sids is accepted for a ttl, not even what was signed meanwhile. | two sessions, two concurrent requests, 6 ids: a login, its redemption and a rotation, or two redemptions of one code; ttl 1, time 2, so that the prune horizon is passed (the proofs below are for every lifetime and any change of it at a restart) |
| `sessions_clients` | `SessionIsolation`: logouts and revocations, of whatever string, cost no other client a session or an access token. `LogoutCompletes`: a logout that has begun bars all it took | two clients, two concurrent requests, 4 ids: one full grant beside another session, or two access-only ones. A configured issuer, under which `op` takes every way into `RevokeToken`: a refresh token is read as an access token before its expiry, and handed over raw at it. No symmetry, as it checks liveness |
| `auth_requests` | `CodesIndexRequests`, `OnePersonaPerLogin`, `AnsweredLoginIsGone`, `YoungFlowsSurvive` | two personas, two concurrent requests, 4 ids shared by requests and codes: a request with three codes, or two with one each; TTL 1, time 2 |
| `device_flow` | `UserCodesResolve`: the unchecked dereference is safe. `TokensAsApproved`; `AnswersStand`: what a device was told stays true if it polls again while its page is still open to others; `PageDecidesShownDevice`; `ImplementsGrant` | two devices, clients, user codes, people and personas; lifetime, interval and grace of 1, time 5, past the first device's prune so that its user code is reused |
| `device_liveness` | `EveryDeviceIsAnswered` | two devices, one person, fairness |
| `serve` | `NamedPersonaIsMeant`: a token leads to its own persona, and a sub too, unless it was rewritten into another's. `EveryPersonaIsShown` in the picker. `HintsIgnoreCase`: two spellings of a hint log in one persona, unless each is exactly somebody's sub. `ReferencesAreServed`: a browser that follows a rewritten claim, redirects included, gets the file. `HonestResponses`: encoding, length, caching and the end of the gzip stream agree with the header that went out first. `GracefulMeansDrained`, `ServeEnds` | 21 files that load and 30 with one defect each: every rule of `Loads` is broken by one of them. Two requests, numbered as they arrive, for each of the pages and files a claim refers to or that are not there, plain, with gzip, in part or revalidated |
| `token_endpoint` | `CredentialsDecide`: an exchange fails for its client exactly if the credentials, as written, are wrong. `OpNeverPanics`. `AudienceParity`: exchanged, code and refreshed tokens of a client have the same audiences. `IdTokenNamesItsClient`: concurrent appends to lists do not mix. `AccessTokensOmitStandardClaims`, `ScopeMapAddsNoStandardClaim`; `CodesNeedProof`; `IntrospectionIsAuthenticated` | two concurrent requests. Four configurations: permissive, a confidential and a public client with a global list, the same where one client opts out of it, and without a list. Requests: 45 combinations of header and body credentials (encoded, needlessly encoded, wrongly encoded, malformed, absent), and one of each other choice the code makes, a userinfo request among them. The encoding has a character that must be escaped (`+`), one it is confused with (space) and an escape that need not be there (`%61`) |

Violation runs. In each, the quoted comment or test is stronger than what the code does; the first is a mistake in the code:

| Run | Comment or test | What happens |
|---|---|---|
| `foreign_revocation` | `storage_test.go:508`: "only the client a token was issued to may revoke it"; `storage.go:464`: "already enforced ownership" | with a configured issuer a refresh token revoked by another client reaches `RevokeToken` as its jti, and is barred: it is no access token, does not decode and names no session, so every check falls through. The test passes the JWT, as `op` does only without an issuer. `SessionIsolation` is what does hold |
| `refresh_leeway` | `tokens.go:138`: "any token they could bar has expired on its own by then" | a token lives on for go-jose's minute of leeway after its expiry; the entry that bars it is dropped at the expiry. Hence the `now <= t.exp` in `RevokedUntilExpiry` |
| `late_code` | `storage.go:144`: "expiry here means no live token can carry the sid" | a code redeemed late gives a token that lives a ttl from *then*; the session's horizon still counts from the login. Hence the window in `SessionCoversToken` |
| `code_single_use` | `storage.go:275`: "codes are single-use" | two overlapping token requests both resolve a code before either deletes it. `AnsweredLoginIsGone` is what does hold |

`CHECK_DEADLOCK` is off everywhere: the bounds on ids and time end each model, and a
server nobody talks to is at rest.

## Fairness

`Sessions!FairSpec` has weak fairness of each worker's next step: a handler that has begun waits
only for mutexes held for a few map operations. Nothing makes a new request
arrive. `DeviceFlow!FairSpec` has weak fairness of the clock and of each
device's poll, since a device polls until told to stop (RFC 8628). People are not
fair. `Serve!FairSpec` has weak fairness of the main goroutine's steps and of the
listener's return after its listener was closed; for the main goroutine that includes
`DrainTimesOut`, which is Shutdown's deadline. Handlers, browsers and signals are not
fair, and `ServeEnds` does not need them to be. `RefreshTokens` and `AuthRequests` promise nothing that needs fairness.

## What is proved

`RefreshTokensProofs`, for every set of lifetimes, leeway, number of parsers and bound:

* `TypeCorrect`: `Spec => []TypeOK`.
* `RevocationHolds`: `Spec => []RevokedUntilExpiry`.
* `ParseSound`: `Spec => []ParseHonoursRevocation`.

The properties are not inductive: they do not say which entries a prune may drop.
The inductive invariant is `TypeOK`, `Memory` and `ParseProgress`. `Memory` says
that an entry of `history` is in `revoked` unless older than the ttl: `Revoke` keeps it because it
prunes by the same comparison, the clock only ages entries, a restart
empties both. `BarsMeansRevoked` turns it into the refusal of a token.
`ParseProgress` is the same for a parse in flight: at each stage, a token that was doomed at
the first read has expired or has its bar still ahead. Assumed: lifetimes
and leeway are naturals, and at least one lifetime exists.

`SessionsProofs`, for every set of personas, clients and concurrent requests:

* `RevocationHoldsInStorage`: `Spec => []RT!RevokedUntilExpiry`. The manager's theorem holds inside `Storage`, since
  each step of each request is an operation of the manager or leaves it alone. That is how the actions are written, so it
  is a lemma (`ManagerRefinement`) and not a claim of its own.
* `TypeCorrect`: `Spec => []TypeOK`.
* `LogoutFindsSessions`: `Spec => []SessionCoversToken`.
* `RotatedTokensStayRetired`: `Spec => []RotationRetires`.
* `LogoutEndsTokens`: `Spec => []LogoutEndsFamily`.
* `SessionsAreIsolated`: `Spec => SessionIsolation`, whatever the issuer.
* `ClientsAreIsolated`: `ASSUME ~StaticIssuer PROVE Spec => ClientIsolation`, since then no jti of a refresh token reaches
  `RevokeToken`. The run `foreign_revocation` shows that the assumption is needed.

All but the first share `IInv`, which is inductive given the manager's own invariant; that one holds in every
state because of `ManagerRefinement`, so the proof goes back and forth between the two modules once. `IInv` says
what the maps owe each other: `IdsApart` (an identifier is a session's, a refresh token's or an access token's), `LoginsOwned` and
`SeenCovered` (a session seen within the last ttl is on the map, unless a logout took it off), `SpentBarred` (a rotated token is in the denylist,
at its signature or later), `TerminatedPending` (a sid that a logout took is in the denylist or still in that logout's `todo`), and for each request
in progress what its local variables were checked for (`Granting`, `Terminating`, `Revoking`). The last is where
interleavings matter: a refresh holds on to a session that a logout may remove meanwhile. `Evolves` is what every step but
`Restart` does to what other requests rely on, and most conjuncts follow from it. The attempt to prove
`RotationRetires` showed that it was false as first stated, for a token older than a restart that shortens the
lifetime; the run had one lifetime only.

`AuthRequestsProofs`, for every set of personas, number of concurrent requests, TTL and bound:

* `TypeCorrect`: `Spec => []TypeOK`.
* `IndexIsExact`: `Spec => []CodesIndexRequests`.
* `LoginsHaveOnePersona`: `Spec => []OnePersonaPerLogin`.
* `AnsweredLoginsStayGone`: `Spec => []AnsweredLoginIsGone`.
* `FlowsSurvive`: `Spec => YoungFlowsSurvive`.

One invariant again, and not even the types are inductive without it: that a redemption works for a persona follows
from `CodesLeadBack` (a code leads to a request that is done and that leads back to it), `DoneIsChosen` and
`WorkIsChosen` (whoever a snapshot names was chosen for that login, and a choice is never taken back).

`DeviceFlowProofs`, for every lifetime, every interval within the grace, and any number of devices, user codes and people:

* `TypeCorrect`: `Spec => []TypeOK`.
* `CodesResolve`: `Spec => []UserCodesResolve`.
* `TokensFollowApproval`: `Spec => []TokensAsApproved`.
* `AnswersHold`: `Spec => []AnswersStand`.
* `PostsDecideShownDevice`: `Spec => PageDecidesShownDevice`: a post decides the device its page was shown for, or none,
  unless that device is past its expiry and grace or was lost to a restart. Only then may its user code have been
  given to another, and a page that old does decide another device: that much no document rules out.
* `GrantRefinement`: `Spec => ImplementsGrant`, action by action; a prune and a reused user code are stutters of `DeviceGrant`.

`IInv` relates a stored request with its device and with the verdict (`RequestsMatch`, `Decisions`), an open page
with the user code it posts (`PagesStand`) and an answer with what the next poll would be told (`RepliesStand`). What is
missing from the maps is accounted for by `PrunedIsGone`: a device without a request has seen a restart or the end of
its grace. `Punctuality` is where the grace is needed: a device that keeps to its interval and has no answer polls
no later than an interval after its expiry.

`TokenEndpointProofs`, for every set of configurations, requests and encodings that meets the
assumptions of the module, and any number of concurrent requests:

* `TypeCorrect`: `Spec => []TypeOK`, which includes that a bridged header is well encoded.
* `NeverPanics`: `Spec => []OpNeverPanics`.
* `CredentialsSound`: `Spec => []CredentialsDecide`.
* `IdTokensKeepTheirAudience`: `Spec => []IdTokenNamesItsClient`.
* `AudiencesAgree`: `Spec => []AudienceParity`.
* `AccessTokensStayLean`: `Spec => []AccessTokensOmitStandardClaims`, and `ScopeMapIsHarmless`:
  `Spec => []ScopeMapAddsNoStandardClaim`.
* `CodesAreProved`: `Spec => []CodesNeedProof`, and `IntrospectionNeedsSecret`: `Spec => []IntrospectionIsAuthenticated`.

The first three share the invariant `Inv`: `TypeOK` and `Progress`, which says at each stage what a request
must have passed (a defaulted exchange has its bridged header and it decodes; an
admitted one had the right credentials). The fact about data they rest on is
that `QueryUnescape` inverts `QueryEscape`, which is assumed (`EncodingAssumption`). The fourth has an
invariant of its own, `ListInv`: a request's list lies in its own array, so
what it finds behind it is what it put there. The others need `Path`, which follows what decides on a token from
stage to stage (the audience an exchange was defaulted to is that of the client in its header, hence of the client that is
admitted by it), and `TokensInv`, in which `AudienceParity` becomes a statement on one token (`ConfiguredAudiences`)
instead of two. Also assumed: no client has an empty id (validation rejects it).

`ServeProofs`, for every set of files that parse (`FilesAssumption`), every disk and any number of requests:

* `TypeCorrect`: `Spec => []TypeOK`, where `LoadedIsTyped` gets the positive lifetimes and the
  mounts of one named segment from `Normalised` and `Valid`.
* `ResponsesAreHonest`: `Spec => []HonestResponses`. The invariant `ResponsesInv` says at each
  stage what is so far true: `Unsent` before the header, and `Sent` after it, where a declared
  length is what is written plus what is left to write. It rests on `AnswersAreGood`: every handler
  declares a length it keeps to, and answers in part only a request for a part.
* `ShutdownIsGraceful`: `Spec => []GracefulMeansDrained`. `DrainInv` adds that the channel
  holds `ErrServerClosed` only after `Shutdown` was called, hence never while main still selects, and that
  after a finished drain nothing is accepted.
* `NamesArePersonas`: `Spec => []NamedPersonaIsMeant`. Tokens are what `PersonasValid` compared; subs may have been
  rewritten since, but rewriting keeps what differs apart (`RewritingIsInjective`), so of two personas that share a sub
  exactly one was configured with a reference.
* `HintsMeanOne`: `Spec => []HintsIgnoreCase`. Two spellings have the same candidates by email; if there is
  one, it is the only one of both, and if there is none, each means whose sub it is.
* `EveryPersonaHasACard`: `Spec => []EveryPersonaIsShown`. `PageListsGroups` says of which group each list of the
  page is, `GroupsHaveAList` and `GroupsHaveOneList` that a group with a persona has one, and one only if it is declared at
  most once.
* `ReferencesLeadToFiles`: `Spec => []ReferencesAreServed`. A reference that resolves is either clean, and then
  its file is served, or redirected to the clean path, which is the same file's (`ReferencesAreRouted`). `Followed`
  keeps this for each request through the redirect; `Serving` says that nothing is accepted before the configuration is loaded.

The last two rest on `ConfigurationProofs`: `InOrder` lists every number of a set once and in order (`InOrderLists`), and
is the only list that does (`InOrderUnique`); hence cleaning a clean path changes nothing (`CleanIsIdempotent`) and a
first segment that is kept stays first (`CleanKeepsHead`). These are facts about ranks and cardinalities, so they
need no induction over lists. Assumed: no file of a disk is called by the empty path (`DiskAssumption`). The proof of
`ReferencesAreServed` failed for two kinds of reference that load and that the runs had not tried; they are among the
exceptions below and among the files of the run.

The theorems are about `Spec`, of which `FairSpec` is a part.

Every invariant, action property and refinement that a passing run checks is proved, for all values of the constants. Only model-checked are the three that
need fairness, which the prover does not reach: `LogoutCompletes`, `EveryDeviceIsAnswered` and `ServeEnds`. So are the
violations, which are counterexamples.

## Where the code is less than its comments say

The violation runs are one kind. These came up while the modules were written; the
properties of the passing runs name them as exceptions or allow for them:

* `config/static.go:35` guarantees "no dangling static references", but a reference that ends in a slash
  (`hamnir://avatars/eve.svg/`) and one to an `index.html`, also written `index.html/.`, load, and a browser gets a 404: `noDirList` answers
  every path that ends in a slash, and `http.FileServer` redirects an `index.html` to one. So do the references of a mount
  named `.`, which the mux cleans out of the path (`ReferencesAreServed`).
* `persona.go:20`: "a validated config never reaches that case" of two personas with one sub. A `sub` that
  is itself a reference is compared before it is rewritten, and may come to equal another
  persona's; the card of the one then logs in the other (`NamedPersonaIsMeant`).
* `config.go:91`: "a nil error guarantees a fully usable config". A mount name with a space is valid, and
  `ServeMux.Handle` panics on its pattern; and `op.NewProvider`, which checks the issuer itself, may still refuse it (`Build`).
* `storage.go:350`: "this call proves the session is live". A refresh that passed `Parse` before a logout registers the dead
  session again; its tokens stay barred (`LogoutEndsFamily`).
* `tokens.go:138` is not true either of a token from an earlier boot with a longer lifetime: revoked in this one, it is accepted
  again when this boot's shorter ttl has pruned its entry. `RevokedUntilExpiry` speaks of tokens within the entry's life.
* A group id may be declared twice; its personas are then shown twice (`EveryPersonaIsShown`).

## What is not modelled

* `op`, go-jose, HTTP and templates, except for the order of `op`'s calls and
  the leeway. Signatures are sound; PKCE, client and redirect checks are
  `RedeemReject`.
* Values that no modelled decision depends on: nonces and states. Scopes, audiences
  and claims are in `TokenEndpoint`, which in turn leaves out lifetimes, sessions and revocation.
* Actor tokens, which are refused; redirect URIs, which `op` matches; the discovery document, whose
  corrections are constant.
* A poll is one step, although `op` makes the tokens after reading the state: an
  authorization that is done never changes again, and the tokens are a grant of `Sessions`.
* The signing key is the same after a restart (`signing_key` in the
  configuration, `config/key.go`); with a fresh one no token survives and nothing can go wrong.
* YAML and key decoding, labels and names, claims nested in claims (resolved as those at the top are), and
  mount names in which percent-encoding matters.
* `hamnir init`, which writes one file, and the command line. `hamnir validate` is `LoadConfig` alone.
* Keep-alive and `WriteTimeout`: a connection carries one response, and one that is cut off by a timeout
  just stays unfinished.
* The example application, which is a client of Hamnir and no part of it.

## Plan

Done: all modules above, their runs, and a proof of every property that needs no fairness. Next, in order:

1. The safety half of the liveness properties, as theorems: that a logout's `todo` only shrinks and what leaves it is
   in the denylist (`LogoutCompletes`), that a device which polls is asked again only while its request is kept
   (`EveryDeviceIsAnswered`), that main is never without a step once a signal has arrived (`ServeEnds`).
2. Theorems about the configuration as such: `Load` leaves no reference behind, normalising twice is normalising once.
3. What bounds the maps: a denylist entry, a session and an auth request are kept no longer than the next prune after their time.
4. `RevokeToken`'s and `Parse`'s reads, which `Sessions` folds into one step, justified by a refinement instead of by argument.
