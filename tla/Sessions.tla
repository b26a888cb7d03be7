------------------------------- MODULE Sessions -------------------------------
(***************************************************************************)
(* Login sessions and the tokens that carry them: the part of              *)
(* internal/provider/storage.go from AuthenticateAndComplete to            *)
(* RevokeToken, composed with the RefreshTokenManager (RefreshTokens.tla). *)
(*                                                                         *)
(* A session id is minted by a login, a token exchange or a device         *)
(* authorization and then travels inside refresh tokens, from each to the  *)
(* one it is rotated into.  Logout finds sessions in Storage.sessions and  *)
(* bars their ids on the manager's denylist; both maps forget lazily.      *)
(*                                                                         *)
(* HTTP requests run concurrently.  Each worker in Reqs is one request in  *)
(* progress; one step of it is one critical section of s.mu or of the      *)
(* manager's lock, so any two requests interleave between them.  Two reads *)
(* the code makes just before a lock are folded into the section: the      *)
(* clock of storeAccessToken, and the three reads of Parse (a Parse that   *)
(* says yes saw both ids clear when it looked up the first; the module     *)
(* RefreshTokens takes it apart).                                          *)
(***************************************************************************)
EXTENDS Integers, FiniteSets

CONSTANTS
  Subs,        \* personas
  Clients,     \* registered clients
  AnyClient,   \* the empty clientID: terminate the user's every session
  StaticIssuer,\* is cfg.Issuer set? (else each request's host is the issuer)
  Reqs,        \* requests served at the same time
  Traffic,     \* bound: the kinds of request that are made, a subset of Kinds
  MaxSessions, \* bound: session ids minted
  AccessTTL,   \* lifetimes.accessToken
  Lifetimes,   \* see RefreshTokens
  Leeway,
  MaxIds,
  MaxTime

ASSUME ManagerAssumption   ==
  /\ Lifetimes \subseteq Nat /\ Lifetimes # {}
  /\ Leeway \in Nat /\ MaxIds \in Nat /\ MaxTime \in Nat
ASSUME SessionsAssumption  == MaxSessions \in Nat
ASSUME AccessTTLAssumption == AccessTTL \in Nat
Kinds == {"login", "evict", "grant", "access", "refresh", "logout", "revocation", "restart"}

ASSUME TrafficAssumption   == Traffic \subseteq Kinds
ASSUME AnyClientAssumption == AnyClient \notin Clients
ASSUME IssuerAssumption    == StaticIssuer \in BOOLEAN

VARIABLES
  now, drawn, ttl, issued, revoked, history,   \* see RefreshTokens
  owner,         \* sid |-> the subject and client its tokens name
  sessions,      \* s.sessions: sid |-> subject, client, lastSeen
  accessTokens,  \* s.accessTokens: jti |-> subject, client, expiration
  logins,        \* completed auth requests whose code is not redeemed yet
  held,          \* jtis of refresh tokens that reached a client
  req,           \* the requests in progress
  seen,          \* history variable: jti |-> when its session was last seen
                 \*   as the token was handed out, for tokens of this boot
  spent,         \* history variable: jtis whose rotation was answered
  terminated     \* history variable: sids a logout found in sessions

manager == <<now, drawn, ttl, issued, revoked, history>>
store   == <<sessions, accessTokens, logins>>
ghosts  == <<seen, spent, terminated>>
vars    == <<manager, owner, store, held, req, ghosts>>

RT == INSTANCE RefreshTokens
        WITH Parsers <- Reqs, parse <- [r \in Reqs |-> [stage |-> "idle"]]

Who  == [sub : Subs, client : Clients]
Idle == [pc |-> "idle"]

(* A request in progress: the TokenClaims it works for (jti is 0 unless it *)
(* is a refresh grant), the session's lastSeen it relies on, the refresh   *)
(* token it has signed (0: none yet) and the sids it has still to revoke.  *)
Working ==
  [pc : {"touch", "store", "issue", "rotate", "finish", "terminate",
         "revoke", "check", "bar"},
   kind : {"code", "refresh", "grant", "access", "revoke", "logout"},
   sub : Subs, client : Clients \cup {AnyClient},
   sid : 0..drawn, jti : 0..drawn, lastSeen : 0..now, new : 0..drawn,
   todo : SUBSET (1..drawn)]

Begin(kind, pc, who, sid, jti, lastSeen) ==
  [pc |-> pc, kind |-> kind, sub |-> who.sub, client |-> who.client,
   sid |-> sid, jti |-> jti, lastSeen |-> lastSeen, new |-> 0, todo |-> {}]

(* A map with keys among the drawn identifiers. *)
Keyed(f, S) == DOMAIN f \subseteq 1..drawn /\ f \in [DOMAIN f -> S]

TypeOK ==
  /\ RT!TypeOK
  /\ Keyed(owner, Who)
  /\ Keyed(sessions, [sub : Subs, client : Clients, lastSeen : 0..now])
  /\ Keyed(accessTokens, [sub : Subs, client : Clients, exp : Nat])
  /\ logins \subseteq [sid : 1..drawn, sub : Subs, client : Clients, at : 0..now]
  /\ req \in [Reqs -> Working \cup {Idle}]
  /\ held \subseteq 1..drawn
  /\ Keyed(seen, 0..now) /\ DOMAIN seen \subseteq held
  /\ spent \subseteq 1..drawn
  /\ terminated \subseteq 1..drawn

Init ==
  /\ RT!Init
  /\ owner = RT!Empty
  /\ sessions = RT!Empty
  /\ accessTokens = RT!Empty
  /\ logins = {}
  /\ held = {}
  /\ req = [r \in Reqs |-> Idle]
  /\ seen = RT!Empty
  /\ spent = {}
  /\ terminated = {}

-----------------------------------------------------------------------------
(* Helpers.  A `Faulty...` operator, here and below, is never used: it is  *)
(* the definition after it with a plausible bug, which some property must  *)
(* be able to tell from it.                                                *)

Put(f, k, v) == [x \in DOMAIN f \cup {k} |-> IF x = k THEN v ELSE f[x]]
Without(f, S) == [x \in DOMAIN f \ S |-> f[x]]

(* pruneSessionsLocked: sids not seen within the refresh TTL. *)
Stale == {sid \in DOMAIN sessions : now - sessions[sid].lastSeen > ttl}

FaultyRegistering(sid, who) ==   \* a known sid keeps its lastSeen
  IF sid \in DOMAIN sessions THEN Without(sessions, Stale)
  ELSE Put(Without(sessions, Stale), sid,
           [sub |-> who.sub, client |-> who.client, lastSeen |-> now])

(* Prune, then register sid as seen now: what AuthenticateAndComplete and  *)
(* touchSession both do under s.mu.                                        *)
Registering(sid, who) ==
  Put(Without(sessions, Stale), sid,
      [sub |-> who.sub, client |-> who.client, lastSeen |-> now])

Matches(c, client) == c = AnyClient \/ c = client

Goto(r, pc) == req' = [req EXCEPT ![r].pc = pc]
Finish(r)   == req' = [req EXCEPT ![r] = Idle]

(* The client gets refresh token jti, whose session was last seen at t.    *)
Deliver(jti, t) ==
  /\ held' = held \cup {jti}
  /\ seen' = Put(seen, jti, t)

-----------------------------------------------------------------------------
(* Sessions begin.                                                         *)

FaultyLogin(who) ==   \* the sid is not drawn
  /\ "login" \in Traffic
  /\ Cardinality(DOMAIN owner) < MaxSessions
  /\ owner' = Put(owner, drawn + 1, who)
  /\ sessions' = Registering(drawn + 1, who)
  /\ UNCHANGED <<manager, accessTokens, logins, held, req, ghosts>>

(* AuthenticateAndComplete: the picker completes an auth request with a    *)
(* fresh sid and registers the session, all under s.mu.                    *)
Login(who) ==
  /\ "login" \in Traffic
  /\ Cardinality(DOMAIN owner) < MaxSessions
  /\ RT!Draw
  /\ LET sid == drawn + 1 IN
       /\ owner' = Put(owner, sid, who)
       /\ sessions' = Registering(sid, who)
       /\ logins' = logins \cup
            {[sid |-> sid, sub |-> who.sub, client |-> who.client, at |-> now]}
  /\ UNCHANGED <<accessTokens, held, req, ghosts>>

(* CreateAuthRequest of another flow evicts this one.  Its createdAt is    *)
(* not kept here (AuthRequests has it), so it may go at any moment.        *)
EvictLogin(l) ==
  /\ "evict" \in Traffic
  /\ logins' = logins \ {l}
  /\ UNCHANGED <<manager, owner, sessions, accessTokens, held, req, ghosts>>

(* A token exchange (kind "grant" for a refresh token, "access" for an     *)
(* access token only) or a device authorization ("grant"): requestInfo     *)
(* mints a fresh sid.                                                      *)
GrantBegin(r, who, kind) ==
  /\ kind \in Traffic
  /\ Cardinality(DOMAIN owner) < MaxSessions
  /\ req[r] = Idle
  /\ RT!Draw
  /\ owner' = Put(owner, drawn + 1, who)
  /\ req' = [req EXCEPT ![r] = Begin(kind, "touch", who, drawn + 1, 0, 0)]
  /\ UNCHANGED <<store, held, ghosts>>

(* The token endpoint resolves a code: AuthRequestByCode hands out a       *)
(* snapshot.  The session is not touched on this path.                     *)
RedeemBegin(r, l) ==
  /\ req[r] = Idle
  /\ req' = [req EXCEPT ![r] = Begin("code", "store", l, l.sid, 0, l.at)]
  /\ UNCHANGED <<manager, owner, store, held, ghosts>>

(* TokenRequestByRefreshToken: Parse accepts the presented token. *)
RefreshBegin(r, t) ==
  /\ "refresh" \in Traffic
  /\ req[r] = Idle
  /\ t.jti \in held
  /\ RT!Accepts(t)
  /\ req' = [req EXCEPT ![r] =
               Begin("refresh", "store", owner[t.sid], t.sid, t.jti, 0)]
  /\ UNCHANGED <<manager, owner, store, held, ghosts>>

-----------------------------------------------------------------------------
(* CreateAccessToken and CreateAccessAndRefreshTokens, lock by lock.       *)

(* touchSession.  First step of an exchange or device grant, last step of  *)
(* a refresh grant, which then answers.                                    *)
Touch(r) ==
  /\ req[r].pc = "touch"
  /\ sessions' = Registering(req[r].sid, req[r])
  /\ IF req[r].kind = "refresh"
       THEN /\ Finish(r)
            /\ Deliver(req[r].new, now)
            /\ spent' = spent \cup {req[r].jti}
       ELSE /\ req' = [req EXCEPT ![r].pc = "store", ![r].lastSeen = now]
            /\ UNCHANGED <<held, seen, spent>>
  /\ UNCHANGED <<manager, owner, accessTokens, logins, terminated>>

(* storeAccessToken: evict what has expired, insert a fresh jti. *)
StoreAccess(r) ==
  /\ req[r].pc = "store"
  /\ RT!Draw
  /\ accessTokens' =
       Put(Without(accessTokens, {j \in DOMAIN accessTokens : accessTokens[j].exp < now}),
           drawn + 1,
           [sub |-> req[r].sub, client |-> req[r].client, exp |-> now + AccessTTL])
  /\ IF req[r].kind = "access" THEN Finish(r) ELSE Goto(r, "issue")
  /\ UNCHANGED <<owner, sessions, logins, held, ghosts>>

(* s.refresh.Issue.  For a grant that was the last step. *)
IssueRefresh(r) ==
  /\ req[r].pc = "issue"
  /\ RT!Issue(req[r].sid)
  /\ IF req[r].kind = "grant"
       THEN Finish(r) /\ Deliver(drawn + 1, req[r].lastSeen)
       ELSE /\ req' = [req EXCEPT ![r].new = drawn + 1,
                         ![r].pc = IF req[r].kind = "code" THEN "finish" ELSE "rotate"]
            /\ UNCHANGED <<held, seen>>
  /\ UNCHANGED <<owner, store, spent, terminated>>

FaultyRotate(r) ==   \* bars the new token instead of the old one
  /\ req[r].pc = "rotate"
  /\ RT!Revoke(req[r].new)
  /\ Goto(r, "touch")
  /\ UNCHANGED <<owner, store, held, ghosts>>

(* The replaced token's jti goes on the denylist. *)
Rotate(r) ==
  /\ req[r].pc = "rotate"
  /\ RT!Revoke(req[r].jti)
  /\ Goto(r, "touch")
  /\ UNCHANGED <<owner, store, held, ghosts>>

(* op deletes the auth request and answers the code exchange. *)
FinishCode(r) ==
  /\ req[r].pc = "finish"
  /\ logins' = {l \in logins : l.sid # req[r].sid}
  /\ Finish(r)
  /\ Deliver(req[r].new, req[r].lastSeen)
  /\ UNCHANGED <<manager, owner, sessions, accessTokens, spent, terminated>>

-----------------------------------------------------------------------------
(* Sessions end.                                                           *)

(* TerminateSession, the part under s.mu: take the user's sessions with    *)
(* the client off the map and drop its access tokens.  The sids are        *)
(* revoked afterwards, one by one, with s.mu released.                     *)
Logout(r, u, c) ==
  /\ "logout" \in Traffic
  /\ req[r] = Idle
  /\ LET gone == {sid \in DOMAIN sessions :
                    sessions[sid].sub = u /\ Matches(c, sessions[sid].client)}
     IN  /\ sessions' = Without(sessions, gone)
         /\ terminated' = terminated \cup gone
         /\ req' = [req EXCEPT ![r] =
              [Begin("logout", "terminate", [sub |-> u, client |-> c], 0, 0, 0)
                 EXCEPT !.todo = gone]]
  /\ accessTokens' = Without(accessTokens,
       {j \in DOMAIN accessTokens :
          accessTokens[j].sub = u /\ Matches(c, accessTokens[j].client)})
  /\ UNCHANGED <<manager, owner, logins, held, seen, spent>>

FaultyLogoutRevoke(r, sid) ==   \* returns from inside the loop
  /\ req[r].pc = "terminate"
  /\ sid \in req[r].todo
  /\ RT!Revoke(sid)
  /\ req' = [req EXCEPT ![r].todo = {}]
  /\ UNCHANGED <<owner, store, held, ghosts>>

LogoutRevoke(r, sid) ==
  /\ req[r].pc = "terminate"
  /\ sid \in req[r].todo
  /\ RT!Revoke(sid)
  /\ req' = [req EXCEPT ![r].todo = @ \ {sid}]
  /\ UNCHANGED <<owner, store, held, ghosts>>

FaultyLogoutEnd(r) ==   \* answers with sids still to revoke
  /\ req[r].pc = "terminate"
  /\ Finish(r)
  /\ UNCHANGED <<manager, owner, store, held, ghosts>>

LogoutEnd(r) ==
  /\ req[r].pc = "terminate"
  /\ req[r].todo = {}
  /\ Finish(r)
  /\ UNCHANGED <<manager, owner, store, held, ghosts>>

FaultyRevokeRefreshBegin(r, t, c) ==   \* resolves the token whoever asks
  /\ "revocation" \in Traffic
  /\ req[r] = Idle
  /\ t.jti \in held
  /\ RT!Decodes(t)
  /\ req' = [req EXCEPT ![r] =
       Begin("revoke", "revoke", [owner[t.sid] EXCEPT !.client = c], t.sid, 0, 0)]
  /\ UNCHANGED <<manager, owner, store, held, ghosts>>

(* The revocation endpoint, asked by client c, resolves what it was given: *)
(* GetRefreshTokenInfo turns a refresh token of c, rotated away or not,    *)
(* into its sid ...                                                        *)
RevokeRefreshBegin(r, t, c) ==
  /\ "revocation" \in Traffic
  /\ req[r] = Idle
  /\ t.jti \in held
  /\ RT!Decodes(t)
  /\ owner[t.sid].client = c
  /\ req' = [req EXCEPT ![r] = Begin("revoke", "revoke", owner[t.sid], t.sid, 0, 0)]
  /\ UNCHANGED <<manager, owner, store, held, ghosts>>

(* ... and op reads the jti and subject off an access token, whoever asks. *)
(* (One whose entry is gone before the request arrives is left out: all it *)
(* can do is put its own jti on the denylist, which bars nothing.)         *)
RevokeAccessBegin(r, j, c) ==
  /\ "revocation" \in Traffic
  /\ req[r] = Idle
  /\ req' = [req EXCEPT ![r] =
       Begin("revoke", "revoke", [sub |-> accessTokens[j].sub, client |-> c], j, 0, 0)]
  /\ UNCHANGED <<manager, owner, store, held, ghosts>>

(* A refresh token that GetRefreshTokenInfo did not resolve, because it is *)
(* of another client or because a token_type_hint kept op from asking, op  *)
(* tries as an access token.  Both are signed with the same key; what      *)
(* tells them apart is the issuer, and NewStorage gives refresh tokens     *)
(* cfg.Issuer, which is op's as well, when one is configured.              *)
ReadsAsAccess(t) == StaticIssuer /\ now < t.exp

(* Then the refresh token's own jti and subject are passed on ...          *)
RevokeJtiBegin(r, t, c) ==
  /\ "revocation" \in Traffic
  /\ req[r] = Idle
  /\ t.jti \in held
  /\ ReadsAsAccess(t)
  /\ req' = [req EXCEPT ![r] =
       Begin("revoke", "revoke", [sub |-> owner[t.sid].sub, client |-> c], t.jti, 0, 0)]
  /\ UNCHANGED <<manager, owner, store, held, ghosts>>

(* ... and otherwise the JWT itself (NoId, its jti standing for it).       *)
RevokeRawBegin(r, t, c) ==
  /\ "revocation" \in Traffic
  /\ req[r] = Idle
  /\ t.jti \in held
  /\ ~ReadsAsAccess(t)
  /\ req' = [req EXCEPT ![r] =
       Begin("revoke", "revoke", [sub |-> owner[t.sid].sub, client |-> c],
             RT!NoId, t.jti, 0)]
  /\ UNCHANGED <<manager, owner, store, held, ghosts>>

(* RevokeToken.  An access token of the client is dropped, one of another  *)
(* client is refused ...                                                   *)
RevokeAccess(r) ==
  /\ req[r].pc = "revoke"
  /\ req[r].sid \in DOMAIN accessTokens
  /\ accessTokens' = IF accessTokens[req[r].sid].client = req[r].client
                       THEN Without(accessTokens, {req[r].sid}) ELSE accessTokens
  /\ Finish(r)
  /\ UNCHANGED <<manager, owner, sessions, logins, held, ghosts>>

(* ... a raw refresh JWT of the client bars its whole session; one that no *)
(* longer decodes goes on as a string that names no id ...                 *)
RevokeRaw(r) ==
  /\ req[r].pc = "revoke"
  /\ req[r].sid = RT!NoId
  /\ \E t \in issued :
       /\ t.jti = req[r].jti
       /\ IF ~RT!Decodes(t) THEN Goto(r, "check")
          ELSE IF owner[t.sid].client = req[r].client
            THEN req' = [req EXCEPT ![r].pc = "bar", ![r].sid = t.sid]
            ELSE Finish(r)
  /\ UNCHANGED <<manager, owner, store, held, ghosts>>

(* ... and so does any other id ...                                        *)
RevokeOther(r) ==
  /\ req[r].pc = "revoke"
  /\ req[r].sid \notin DOMAIN accessTokens \cup {RT!NoId}
  /\ Goto(r, "check")
  /\ UNCHANGED <<manager, owner, store, held, ghosts>>

(* ... to the cross-check: a session of the user with another client is    *)
(* left alone ...                                                          *)
RevokeCheck(r) ==
  /\ req[r].pc = "check"
  /\ LET id == req[r].sid
     IN  IF /\ id \in DOMAIN sessions
            /\ sessions[id].sub = req[r].sub
            /\ sessions[id].client # req[r].client
           THEN Finish(r) ELSE Goto(r, "bar")
  /\ UNCHANGED <<manager, owner, store, held, ghosts>>

(* ... and everything else goes on the denylist.                           *)
RevokeBar(r) ==
  /\ req[r].pc = "bar"
  /\ RT!Revoke(req[r].sid)
  /\ Finish(r)
  /\ UNCHANGED <<owner, store, held, ghosts>>

-----------------------------------------------------------------------------
Tick == RT!Tick /\ UNCHANGED <<owner, store, held, req, ghosts>>

(* Everything in memory is lost, requests in progress with it; signed      *)
(* tokens, and so `owner`, live on with their holders.                     *)
Restart ==
  /\ "restart" \in Traffic
  /\ RT!Restart
  /\ sessions' = RT!Empty
  /\ accessTokens' = RT!Empty
  /\ logins' = {}
  /\ req' = [r \in Reqs |-> Idle]
  /\ seen' = RT!Empty
  /\ spent' = {}
  /\ terminated' = {}
  /\ UNCHANGED <<owner, held>>

Step(r) ==
  \/ Touch(r)
  \/ StoreAccess(r)
  \/ IssueRefresh(r)
  \/ Rotate(r)
  \/ FinishCode(r)
  \/ \E sid \in 1..drawn : LogoutRevoke(r, sid)
  \/ LogoutEnd(r)
  \/ RevokeAccess(r) \/ RevokeRaw(r) \/ RevokeOther(r)
  \/ RevokeCheck(r) \/ RevokeBar(r)

Next ==
  \/ \E who \in Who : Login(who)
  \/ \E l \in logins : EvictLogin(l)
  \/ \E r \in Reqs :
       \/ \E who \in Who, kind \in {"grant", "access"} : GrantBegin(r, who, kind)
       \/ \E l \in logins : RedeemBegin(r, l)
       \/ \E t \in issued : RefreshBegin(r, t)
       \/ \E u \in Subs, c \in Clients \cup {AnyClient} : Logout(r, u, c)
       \/ \E t \in issued, c \in Clients :
            RevokeRefreshBegin(r, t, c) \/ RevokeJtiBegin(r, t, c) \/ RevokeRawBegin(r, t, c)
       \/ \E j \in DOMAIN accessTokens, c \in Clients : RevokeAccessBegin(r, j, c)
       \/ Step(r)
  \/ Tick
  \/ Restart

Spec == Init /\ [][Next]_vars

(* A request that has begun is served to its end: its goroutine waits only *)
(* for mutexes that are held for one step.                                 *)
FairSpec == Spec /\ \A r \in Reqs : WF_vars(Step(r))

-----------------------------------------------------------------------------
(* Properties.                                                             *)

(* Logout can find the session of every refresh token a client can still   *)
(* use, for one TTL after the session was last seen as the token was       *)
(* handed out, whatever is pruned meanwhile (storage.go:144-168,350-367).  *)
(* Exceptions: the session was terminated, or the token is of an earlier   *)
(* boot and not refreshed since.                                           *)
SessionCoversToken ==
  \A t \in issued :
    /\ t.jti \in DOMAIN seen
    /\ RT!Accepts(t)
    /\ now <= seen[t.jti] + ttl
    /\ t.sid \notin terminated
    => /\ t.sid \in DOMAIN sessions
       /\ sessions[t.sid].sub = owner[t.sid].sub
       /\ sessions[t.sid].client = owner[t.sid].client

(* Once a refresh has been answered the token it replaced is refused for   *)
(* the rest of its life, whatever other requests have rotated the same     *)
(* token meanwhile (storage.go:339-346).  A token signed for longer than   *)
(* this boot's lifetime may outlive the entry that bars it, as one of a    *)
(* revoked session may (RevokedUntilExpiry).                               *)
RotationRetires ==
  \A t \in issued :
    t.jti \in spent /\ now <= t.exp /\ t.exp - t.iat <= ttl => ~RT!Accepts(t)

(* Once TerminateSession has returned, nothing that carries one of its     *)
(* sids is accepted for a TTL, not even a token signed by a request that   *)
(* was in progress, or by a code redeemed after the logout                 *)
(* (storage.go:397-422).                                                   *)
LogoutEndsFamily ==
  \A t \in issued :
    /\ t.sid \in terminated
    /\ \A r \in Reqs : req[r] # Idle => t.sid \notin req[r].todo
    => /\ t.sid \in DOMAIN history
       /\ now <= history[t.sid] + ttl => ~RT!Accepts(t)

(* A step takes something of user u with client c out of use: a session,  *)
(* an access token before its time, or one refresh token.                  *)
NewlyBarred(id) == ~RT!IsRevoked(id) /\ RT!IsRevoked(id)'
HarmsSession(u, c) ==
  \/ \E sid \in DOMAIN owner : owner[sid] = [sub |-> u, client |-> c] /\ NewlyBarred(sid)
  \/ \E j \in DOMAIN accessTokens \ DOMAIN accessTokens' :
       /\ accessTokens[j].sub = u /\ accessTokens[j].client = c
       /\ now <= accessTokens[j].exp
HarmsToken(u, c) ==
  \E t \in issued : owner[t.sid] = [sub |-> u, client |-> c] /\ NewlyBarred(t.jti)
ActsFor(r, u, c) ==
  /\ req'[r] # req[r]
  /\ LET w == IF req[r] = Idle THEN req'[r] ELSE req[r]
     IN  w.sub = u /\ w.client \in {c, AnyClient}

(* Whatever op makes of the string it is given, no client's revocation or  *)
(* logout ends a session of another client or drops its access tokens      *)
(* (storage.go:398-415,442-473).                                           *)
SessionIsolation ==
  [][~Restart => \A u \in Subs, c \in Clients :
       HarmsSession(u, c) => \E r \in Reqs : ActsFor(r, u, c)]_vars

(* Nor does it cost another client one of its refresh tokens: "only the    *)
(* client a token was issued to may revoke it" (storage_test.go:508-509).  *)
(* That is so as long as op does not take a refresh token for an access    *)
(* token; with a configured issuer RevokeToken bars its jti unasked        *)
(* (storage.go:464-474).                                                   *)
ClientIsolation ==
  [][~Restart => \A u \in Subs, c \in Clients :
       HarmsSession(u, c) \/ HarmsToken(u, c) => \E r \in Reqs : ActsFor(r, u, c)]_vars

(* A logout that has begun bars every session it took off the map, unless  *)
(* the process dies first: the sids are in the handler's hands only        *)
(* (storage.go:416-420).                                                   *)
LogoutCompletes ==
  \A sid \in 1..MaxIds :
    sid \in terminated ~> (sid \in DOMAIN history \/ sid \notin terminated)

(* What storage.go:144-145 says of a session that AuthenticateAndComplete  *)
(* prunes: "lastSeen is refreshed on every rotation, so expiry here means  *)
(* no live token can carry the sid".                                       *)
PrunedSessionHasNoLiveToken ==
  [][~Restart =>
       \A sid \in DOMAIN sessions \ DOMAIN sessions' : sid \notin terminated' =>
         \A t \in issued : t.sid = sid /\ t.jti \in held => ~RT!Accepts(t)]_vars
==============================================================================
