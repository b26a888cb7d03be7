---------------------------- MODULE SessionsProofs ----------------------------
(***************************************************************************)
(* Every step of Sessions is a step of the RefreshTokenManager or leaves   *)
(* it alone, so what RefreshTokensProofs shows of every manager can be     *)
(* cited of the manager inside Storage.                                    *)
(*                                                                         *)
(* The rest is about Storage's own maps.  IInv is inductive given the      *)
(* manager's invariant, which the refinement provides; most steps are      *)
(* covered by one observation, Evolves: whatever a step does, identifiers  *)
(* are fresh, owners and log entries stay, and a session is lost only to a *)
(* logout or by its age.                                                   *)
(***************************************************************************)
EXTENDS Sessions, TLAPS

RTP == INSTANCE RefreshTokensProofs
         WITH Parsers <- Reqs, parse <- [r \in Reqs |-> [stage |-> "idle"]]

(* What a request does to the manager it does through an operation of the  *)
(* manager.                                                                *)
LEMMA StepRefines ==
  ASSUME NEW r \in Reqs, Step(r) PROVE [RT!Next]_(RT!vars)
<1> DEFINE Parse == [p \in Reqs |-> [stage |-> "idle"]]
<1>1. CASE \E sid \in 1..drawn : RT!Issue(sid)
  BY <1>1 DEF RT!Next
<1>2. CASE RT!Draw
  BY <1>2 DEF RT!Next
<1>3. CASE \E id \in {RT!NoId} \cup 1..drawn : RT!Revoke(id)
  BY <1>3 DEF RT!Next
<1>4. CASE UNCHANGED manager
  BY <1>4 DEF RT!vars, manager
<1>5. QED
  <2>1. Touch(r) => UNCHANGED manager
    BY DEF Touch
  <2>2. StoreAccess(r) => RT!Draw
    BY DEF StoreAccess
  <2>3. IssueRefresh(r) => \E sid \in 1..drawn : RT!Issue(sid)
    BY DEF IssueRefresh, RT!Issue
  <2>4. Rotate(r) => \E id \in {RT!NoId} \cup 1..drawn : RT!Revoke(id)
    BY DEF Rotate, RT!Revoke
  <2>5. FinishCode(r) => UNCHANGED manager
    BY DEF FinishCode
  <2>6. ASSUME NEW sid \in 1..drawn, LogoutRevoke(r, sid)
        PROVE  \E id \in {RT!NoId} \cup 1..drawn : RT!Revoke(id)
    BY <2>6 DEF LogoutRevoke
  <2>7. LogoutEnd(r) \/ RevokeAccess(r) \/ RevokeRaw(r) \/ RevokeOther(r) => UNCHANGED manager
    BY DEF LogoutEnd, RevokeAccess, RevokeRaw, RevokeOther
  <2>8. RevokeCheck(r) => UNCHANGED manager
    BY DEF RevokeCheck
  <2>9. RevokeBar(r) => \E id \in {RT!NoId} \cup 1..drawn : RT!Revoke(id)
    BY DEF RevokeBar, RT!Revoke
  <2>10. QED
    BY <1>1, <1>2, <1>3, <1>4, <2>1, <2>2, <2>3, <2>4, <2>5, <2>6, <2>7, <2>8, <2>9 DEF Step

LEMMA NextRefines == [Next]_vars => [RT!Next]_(RT!vars)
<1> SUFFICES ASSUME [Next]_vars PROVE [RT!Next]_(RT!vars)
  OBVIOUS
<1>1. CASE UNCHANGED manager
  BY <1>1 DEF RT!vars, manager
<1>2. CASE RT!Draw \/ RT!Tick \/ RT!Restart
  BY <1>2 DEF RT!Next
<1>3. ASSUME NEW who \in Who, Login(who) PROVE RT!Draw
  BY <1>3 DEF Login
<1>4. ASSUME NEW l \in logins, EvictLogin(l) PROVE UNCHANGED manager
  BY <1>4 DEF EvictLogin
<1>5. ASSUME NEW r \in Reqs, NEW who \in Who, NEW kind \in {"grant", "access"},
             GrantBegin(r, who, kind)
      PROVE  RT!Draw
  BY <1>5 DEF GrantBegin
<1>6. ASSUME NEW r \in Reqs,
             \/ \E l \in logins : RedeemBegin(r, l)
             \/ \E t \in issued : RefreshBegin(r, t)
             \/ \E u \in Subs, c \in Clients \cup {AnyClient} : Logout(r, u, c)
             \/ \E t \in issued, c \in Clients :
                  RevokeRefreshBegin(r, t, c) \/ RevokeJtiBegin(r, t, c) \/ RevokeRawBegin(r, t, c)
             \/ \E j \in DOMAIN accessTokens, c \in Clients : RevokeAccessBegin(r, j, c)
      PROVE  UNCHANGED manager
  BY <1>6 DEF RedeemBegin, RefreshBegin, Logout, RevokeRefreshBegin, RevokeJtiBegin,
              RevokeRawBegin, RevokeAccessBegin
<1>7. ASSUME NEW r \in Reqs, Step(r) PROVE [RT!Next]_(RT!vars)
  BY <1>7, StepRefines
<1>8. Tick => RT!Tick
  BY DEF Tick
<1>9. Restart => RT!Restart
  BY DEF Restart
<1>10. UNCHANGED vars => UNCHANGED manager
  BY DEF vars
<1>11. QED
  BY <1>1, <1>2, <1>3, <1>4, <1>5, <1>6, <1>7, <1>8, <1>9, <1>10 DEF Next

(* Storage uses its RefreshTokenManager only through Issue, Parse and      *)
(* Revoke, with ids it has drawn (storage.go:301-476), so what is proved   *)
(* of every behaviour of the manager can be used here.                     *)
LEMMA ManagerRefinement == Spec => RT!Spec
<1>1. Init => RT!Init
  BY DEF Init
<1>2. QED
  BY <1>1, NextRefines, PTL DEF Spec, RT!Spec

(* The two instances of RefreshTokens, RT and the one inside RTP, are the  *)
(* same definitions under the same substitution.                           *)
LEMMA SameInit == RT!Init <=> RTP!Init
BY DEF RT!Init, RTP!Init, RT!Empty, RTP!Empty, RT!Idle, RTP!Idle

LEMMA SameNext == [RT!Next]_(RT!vars) <=> [RTP!Next]_(RTP!vars)
<1>1. UNCHANGED RT!vars <=> UNCHANGED RTP!vars
  BY DEF RT!vars, RTP!vars
<1>2. RT!Draw <=> RTP!Draw
  BY DEF RT!Draw, RTP!Draw
<1>3. \A sid : RT!Issue(sid) <=> RTP!Issue(sid)
  BY DEF RT!Issue, RTP!Issue
<1>4. \A id : RT!Revoke(id) <=> RTP!Revoke(id)
  BY DEF RT!Revoke, RTP!Revoke, RT!NoId, RTP!NoId, RT!Barring, RTP!Barring,
         RT!Recording, RTP!Recording
<1>5. \A p, t : RT!Decode(p, t) <=> RTP!Decode(p, t)
  BY DEF RT!Decode, RTP!Decode, RT!Idle, RTP!Idle, RT!Decodes, RTP!Decodes,
         RT!Barred, RTP!Barred, RT!Bars, RTP!Bars
<1>6. \A p : RT!CheckSid(p) <=> RTP!CheckSid(p)
  BY DEF RT!CheckSid, RTP!CheckSid, RT!Idle, RTP!Idle, RT!IsRevoked, RTP!IsRevoked
<1>7. \A p : RT!CheckJti(p) <=> RTP!CheckJti(p)
  BY DEF RT!CheckJti, RTP!CheckJti, RT!Idle, RTP!Idle, RT!IsRevoked, RTP!IsRevoked
<1>8. \A p : RT!Return(p) <=> RTP!Return(p)
  BY DEF RT!Return, RTP!Return, RT!Idle, RTP!Idle
<1>9. RT!Tick <=> RTP!Tick
  BY DEF RT!Tick, RTP!Tick
<1>10. RT!Restart <=> RTP!Restart
  BY DEF RT!Restart, RTP!Restart, RT!Empty, RTP!Empty, RT!Idle, RTP!Idle
<1>11. RT!Next <=> RTP!Next
  BY <1>2, <1>3, <1>4, <1>5, <1>6, <1>7, <1>8, <1>9, <1>10, Zenon
     DEF RT!Next, RTP!Next, RT!NoId, RTP!NoId
<1>12. QED
  BY <1>1, <1>11

(* So no interleaving of logins, rotations, logouts and revocations gets a *)
(* revoked refresh token past TokenRequestByRefreshToken before it expires *)
(* (storage.go:385-392, tokens.go:140-148).                                *)
THEOREM RevocationHoldsInStorage == Spec => []RT!RevokedUntilExpiry
<1>1. RTP!Spec => []RTP!RevokedUntilExpiry
  BY ManagerAssumption, RTP!RevocationHolds
<1>2. RT!RevokedUntilExpiry <=> RTP!RevokedUntilExpiry
  BY DEF RT!RevokedUntilExpiry, RTP!RevokedUntilExpiry, RT!Barred, RTP!Barred,
         RT!Bars, RTP!Bars, RT!Accepts, RTP!Accepts, RT!Decodes, RTP!Decodes,
         RT!IsRevoked, RTP!IsRevoked
<1>3. QED
  BY <1>1, <1>2, SameInit, SameNext, ManagerRefinement, PTL
     DEF RT!Spec, RTP!Spec

-----------------------------------------------------------------------------
(* The storage itself.  The manager's own invariant, its types and Memory, *)
(* holds throughout by the refinement; IInv adds how the maps of Storage   *)
(* and the requests in progress agree with it.                             *)

LEMMA ManagerInvariant == Spec => []RTP!IInv
<1>1. RTP!Spec => []RTP!IInv
  BY ManagerAssumption, RTP!Inductive
<1> QED
  BY <1>1, SameInit, SameNext, ManagerRefinement, PTL DEF RT!Spec, RTP!Spec

(* What the invariant says of the manager's variables.                     *)
LEMMA ManagerFacts ==
  ASSUME RTP!IInv
  PROVE  /\ RT!TypeOK
         /\ now \in Nat /\ drawn \in Nat /\ ttl \in Nat
         /\ \A t \in issued : /\ t.jti \in 1..drawn /\ t.sid \in 1..drawn
                              /\ t.iat \in 0..now /\ t.exp \in Nat
         /\ DOMAIN history \subseteq 0..drawn
         /\ \A id \in DOMAIN history : history[id] \in 0..now
         /\ \A id \in DOMAIN history : id \in DOMAIN revoked \/ history[id] + ttl < now
<1>1. RT!TypeOK
  BY DEF RTP!IInv, RTP!TypeOK, RT!TypeOK, RTP!IsLog, RT!IsLog, RTP!Token, RT!Token,
         RTP!Parsing, RT!Parsing, RTP!Idle, RT!Idle, RTP!NoId, RT!NoId
<1>2. now \in Nat /\ drawn \in Nat /\ ttl \in Nat
  BY <1>1, ManagerAssumption DEF RT!TypeOK
<1>3. \A t \in issued : /\ t.jti \in 1..drawn /\ t.sid \in 1..drawn
                        /\ t.iat \in 0..now /\ t.exp \in Nat
  BY <1>1 DEF RT!TypeOK, RT!Token
<1>4. DOMAIN history \subseteq 0..drawn /\ \A id \in DOMAIN history : history[id] \in 0..now
  BY <1>1, <1>2 DEF RT!TypeOK, RT!IsLog, RT!NoId
<1>5. \A id \in DOMAIN history : id \in DOMAIN revoked \/ history[id] + ttl < now
  BY DEF RTP!IInv, RTP!Memory
<1> QED
  BY <1>1, <1>2, <1>3, <1>4, <1>5

-----------------------------------------------------------------------------
OwnerType    == Keyed(owner, Who)
SessionsType == Keyed(sessions, [sub : Subs, client : Clients, lastSeen : 0..now])
AccessType   == Keyed(accessTokens, [sub : Subs, client : Clients, exp : Nat])
LoginsType   == logins \subseteq [sid : 1..drawn, sub : Subs, client : Clients, at : 0..now]
ReqType      == req \in [Reqs -> Working \cup {Idle}]
HeldType     ==
  /\ held \subseteq 1..drawn
  /\ Keyed(seen, 0..now) /\ DOMAIN seen \subseteq held
SpentType      == spent \subseteq 1..drawn
TerminatedType == terminated \subseteq 1..drawn
StorageTypes ==
  /\ OwnerType /\ SessionsType /\ AccessType /\ LoginsType /\ ReqType
  /\ HeldType /\ SpentType /\ TerminatedType

OwnedBy(sid, sub, client) ==
  sid \in DOMAIN owner /\ owner[sid].sub = sub /\ owner[sid].client = client

(* Session ids, refresh tokens' jtis and access tokens' jtis are different *)
(* identifiers, and a jti is of one token.                                 *)
IdsApart ==
  /\ DOMAIN owner \cap DOMAIN accessTokens = {}
  /\ \A t \in issued :
       t.sid \in DOMAIN owner /\ t.jti \notin DOMAIN owner \cup DOMAIN accessTokens
  /\ \A t, u \in issued : t.jti = u.jti => t = u

(* A session last seen at a moment within the last TTL is on the map,      *)
(* unless a logout took it off.                                            *)
Covered(sid, at) ==
  \/ sid \in terminated
  \/ sid \in DOMAIN sessions /\ at <= sessions[sid].lastSeen
  \/ at + ttl < now

SessionsOwned ==
  \A sid \in DOMAIN sessions : OwnedBy(sid, sessions[sid].sub, sessions[sid].client)
LoginsOwned ==
  \A l \in logins : OwnedBy(l.sid, l.sub, l.client) /\ Covered(l.sid, l.at)
SeenCovered ==
  \A t \in issued : t.jti \in DOMAIN seen => Covered(t.sid, seen[t.jti])
SpentBarred ==
  \A t \in issued : t.jti \in spent => t.jti \in DOMAIN history /\ t.iat <= history[t.jti]
TerminatedPending ==
  \A sid \in terminated :
    \/ sid \in DOMAIN history
    \/ \E r \in Reqs : req[r].pc = "terminate" /\ sid \in req[r].todo

IsToken(jti, sid) == \E t \in issued : t.jti = jti /\ t.sid = sid
Retired(jti) ==
  jti \in DOMAIN history /\ \A t \in issued : t.jti = jti => t.iat <= history[jti]

(* A request on its way to tokens works for the owner of its session; the  *)
(* session it relies on is covered, the token it signed is of the session, *)
(* and the one it replaces is retired before the answer.                   *)
Granting(r) ==
  req[r].pc \in {"touch", "store", "issue", "rotate", "finish"} =>
    /\ OwnedBy(req[r].sid, req[r].sub, req[r].client)
    /\ req[r].kind \in {"code", "refresh", "grant", "access"}
    /\ req[r].pc = "touch" => req[r].kind # "code"
    /\ req[r].pc = "rotate" => req[r].kind = "refresh"
    /\ req[r].pc = "finish" => req[r].kind = "code"
    /\ req[r].pc = "issue" => req[r].kind # "access"
    /\ req[r].kind = "refresh" => IsToken(req[r].jti, req[r].sid)
    /\ req[r].pc \in {"rotate", "finish"} \/ (req[r].pc = "touch" /\ req[r].kind = "refresh") =>
         IsToken(req[r].new, req[r].sid)
    /\ req[r].pc = "touch" /\ req[r].kind = "refresh" => Retired(req[r].jti)
    /\ req[r].pc # "touch" /\ req[r].kind # "refresh" => Covered(req[r].sid, req[r].lastSeen)

(* A logout has only sessions of its user and client in hand.              *)
Terminating(r) ==
  req[r].pc = "terminate" =>
    \A sid \in req[r].todo :
      /\ sid \in DOMAIN owner /\ owner[sid].sub = req[r].sub
      /\ req[r].client \in {AnyClient, owner[sid].client}

(* A revocation names a session of its user and client, or an identifier   *)
(* that is no session's and, unless a configured issuer makes op pass      *)
(* refresh tokens' jtis, no refresh token's.                               *)
Revoking(r) ==
  req[r].pc \in {"revoke", "check", "bar"} =>
    /\ \/ req[r].sid = 0
       \/ OwnedBy(req[r].sid, req[r].sub, req[r].client)
       \/ /\ req[r].sid \notin DOMAIN owner
          /\ StaticIssuer \/ \A t \in issued : t.jti # req[r].sid
    /\ req[r].pc = "revoke" /\ req[r].sid = 0 =>
         \A t \in issued : t.jti = req[r].jti => owner[t.sid].sub = req[r].sub
    /\ req[r].pc = "revoke" /\ req[r].sid \in DOMAIN accessTokens =>
         accessTokens[req[r].sid].sub = req[r].sub

Work(r) == Granting(r) /\ Terminating(r) /\ Revoking(r)

IInv ==
  /\ StorageTypes
  /\ IdsApart /\ SessionsOwned /\ LoginsOwned /\ SeenCovered /\ SpentBarred
  /\ TerminatedPending
  /\ \A r \in Reqs : Work(r)

-----------------------------------------------------------------------------
(* What every step but a restart does to what the others rely on: fresh    *)
(* identifiers at most, entries lost only as the code means to lose them.  *)
Evolves ==
  /\ ttl' = ttl /\ drawn' \in {drawn, drawn + 1} /\ now' \in {now, now + 1}
  /\ \A sid \in DOMAIN owner : sid \in DOMAIN owner' /\ owner'[sid] = owner[sid]
  /\ \A sid \in DOMAIN owner' : sid \in DOMAIN owner \/ sid = drawn + 1
  /\ issued \subseteq issued' /\ \A t \in issued' : t \in issued \/ t.jti = drawn + 1
  /\ \A j \in DOMAIN accessTokens' :
       j = drawn + 1 \/ (j \in DOMAIN accessTokens /\ accessTokens'[j] = accessTokens[j])
  /\ \A id \in DOMAIN history : id \in DOMAIN history' /\ history[id] <= history'[id]
  /\ terminated \subseteq terminated'
  /\ \A sid \in DOMAIN sessions :
       \/ sid \in terminated'
       \/ sid \in DOMAIN sessions' /\ sessions[sid].lastSeen <= sessions'[sid].lastSeen
       \/ sessions[sid].lastSeen + ttl < now'

LEMMA TypesPersist ==
  ASSUME StorageTypes, RTP!IInv, Evolves
  PROVE  /\ owner' = owner => OwnerType'
         /\ sessions' = sessions => SessionsType'
         /\ accessTokens' = accessTokens => AccessType'
         /\ logins' \subseteq logins => LoginsType'
         /\ held' = held /\ seen' = seen => HeldType'
         /\ spent' = spent => SpentType'
         /\ terminated' = terminated => TerminatedType'
         /\ Working \subseteq Working'
<1>1. 0..now \subseteq 0..now' /\ 1..drawn \subseteq 1..drawn' /\ 0..drawn \subseteq 0..drawn'
  BY ManagerFacts DEF Evolves
<1>2. owner' = owner => OwnerType'
  BY <1>1 DEF StorageTypes, OwnerType, Keyed, Who
<1>3. sessions' = sessions => SessionsType'
  BY <1>1 DEF StorageTypes, SessionsType, Keyed
<1>4. accessTokens' = accessTokens => AccessType'
  BY <1>1 DEF StorageTypes, AccessType, Keyed
<1>5. logins' \subseteq logins => LoginsType'
  BY <1>1 DEF StorageTypes, LoginsType
<1>6. held' = held /\ seen' = seen => HeldType'
  BY <1>1 DEF StorageTypes, HeldType, Keyed
<1>7. (spent' = spent => SpentType') /\ (terminated' = terminated => TerminatedType')
  BY <1>1 DEF StorageTypes, SpentType, TerminatedType
<1>8. Working \subseteq Working'
  BY <1>1 DEF Working
<1> QED
  BY <1>2, <1>3, <1>4, <1>5, <1>6, <1>7, <1>8

LEMMA WorkingFields ==
  ASSUME StorageTypes, RTP!IInv, NEW r \in Reqs, req[r].pc # "idle"
  PROVE  /\ req[r] \in Working
         /\ req[r].sid \in 0..drawn /\ req[r].jti \in 0..drawn /\ req[r].new \in 0..drawn
         /\ req[r].lastSeen \in 0..now /\ req[r].sub \in Subs
         /\ req[r].client \in Clients \cup {AnyClient}
         /\ req[r].todo \in SUBSET (1..drawn)
<1>1. req[r] \in Working
  BY DEF StorageTypes, ReqType, Idle
<1> QED
  BY <1>1 DEF Working

LEMMA CoverPersists ==
  ASSUME StorageTypes, RTP!IInv, Evolves, SessionsType', now' \in Nat
  PROVE  \A sid : \A at \in Nat : Covered(sid, at) => Covered(sid, at)'
<1> SUFFICES ASSUME NEW sid, NEW at \in Nat, Covered(sid, at) PROVE Covered(sid, at)'
  OBVIOUS
<1>0. now \in Nat /\ ttl \in Nat /\ now <= now' /\ ttl' = ttl
  BY ManagerFacts DEF Evolves
<1>1. CASE sid \in terminated
  BY <1>1 DEF Covered, Evolves
<1>2. CASE sid \in DOMAIN sessions /\ at <= sessions[sid].lastSeen
  <2>1. sessions[sid].lastSeen \in Nat
    BY <1>0, <1>2 DEF StorageTypes, SessionsType, Keyed
  <2>2. sid \in DOMAIN sessions' => sessions'[sid].lastSeen \in Nat
    BY DEF SessionsType, Keyed
  <2> QED
    BY <1>0, <1>2, <2>1, <2>2 DEF Covered, Evolves
<1>3. CASE at + ttl < now
  BY <1>0, <1>3 DEF Covered
<1> QED
  BY <1>1, <1>2, <1>3 DEF Covered

-----------------------------------------------------------------------------
(* The manager's types, in a form the next state can have too.             *)
ManagerTypes ==
  /\ now \in Nat /\ drawn \in Nat /\ ttl \in Nat
  /\ \A t \in issued : /\ t.jti \in 1..drawn /\ t.sid \in 1..drawn
                       /\ t.iat \in Nat /\ t.exp \in Nat
  /\ \A id \in DOMAIN history : history[id] \in Nat

LEMMA ManagerTyped == RTP!IInv => ManagerTypes
BY ManagerFacts DEF ManagerTypes

(* What a step leaves alone stays right when the rest evolves.             *)
LEMMA Kept ==
  ASSUME IInv, RTP!IInv, ManagerTypes', Evolves, SessionsType'
  PROVE  /\ logins' \subseteq logins => LoginsOwned'
         /\ seen' = seen => SeenCovered'
         /\ spent' = spent => SpentBarred'
         /\ sessions' = sessions => SessionsOwned'
<1>0. ManagerTypes /\ StorageTypes
  BY ManagerTyped DEF IInv
<1>1. \A sid : \A at \in Nat : Covered(sid, at) => Covered(sid, at)'
  BY <1>0, CoverPersists DEF ManagerTypes
<1>2. \A t \in issued' : t.jti \in 1..drawn => t \in issued
  BY <1>0 DEF Evolves, ManagerTypes
<1>3. ASSUME logins' \subseteq logins, NEW l \in logins' PROVE OwnedBy(l.sid, l.sub, l.client)' /\ Covered(l.sid, l.at)'
  <2>1. l \in logins /\ l.at \in Nat
    BY <1>0, <1>3 DEF StorageTypes, LoginsType, ManagerTypes
  <2>2. OwnedBy(l.sid, l.sub, l.client) /\ Covered(l.sid, l.at)
    BY <2>1 DEF IInv, LoginsOwned
  <2> QED
    BY <1>1, <2>1, <2>2 DEF OwnedBy, Evolves
<1>4. ASSUME seen' = seen, NEW t \in issued', t.jti \in DOMAIN seen' PROVE Covered(t.sid, seen[t.jti])'
  <2>1. t \in issued /\ seen[t.jti] \in Nat /\ t.jti \in DOMAIN seen
    BY <1>0, <1>2, <1>4 DEF StorageTypes, HeldType, Keyed, ManagerTypes
  <2>2. Covered(t.sid, seen[t.jti])
    BY <2>1 DEF IInv, SeenCovered
  <2> QED
    BY <1>1, <1>4, <2>1, <2>2 DEF Covered
<1>5. ASSUME spent' = spent, NEW t \in issued', t.jti \in spent'
      PROVE  t.jti \in DOMAIN history' /\ t.iat <= history'[t.jti]
  <2>1. t \in issued /\ t.jti \in spent
    BY <1>0, <1>2, <1>5 DEF StorageTypes, SpentType
  <2>2. t.jti \in DOMAIN history /\ t.iat <= history[t.jti]
    BY <2>1 DEF IInv, SpentBarred
  <2>3. t.jti \in DOMAIN history' /\ history[t.jti] <= history'[t.jti]
    BY <2>2 DEF Evolves
  <2> QED
    BY <1>0, <2>1, <2>2, <2>3 DEF ManagerTypes
<1>6. ASSUME sessions' = sessions PROVE SessionsOwned'
  BY <1>6 DEF IInv, SessionsOwned, OwnedBy, Evolves
<1> QED
  BY <1>3, <1>4, <1>5, <1>6 DEF LoginsOwned, SeenCovered, SpentBarred

(* A request that has not moved goes on working for what it worked for.    *)
LEMMA WorkKept ==
  ASSUME IInv, RTP!IInv, ManagerTypes', Evolves, SessionsType',
         NEW r \in Reqs, req'[r] = req[r]
  PROVE  Work(r)'
<1> DEFINE w == req[r]
<1>0. ManagerTypes /\ StorageTypes /\ IdsApart /\ Work(r)
  BY ManagerTyped DEF IInv
<1>1. \A sid : \A at \in Nat : Covered(sid, at) => Covered(sid, at)'
  BY <1>0, CoverPersists DEF ManagerTypes
<1>2. \A t \in issued' : t.jti # drawn + 1 => t \in issued
  BY DEF Evolves
<1>3. w.pc # "idle" => /\ w.sid \in 0..drawn /\ w.jti \in 0..drawn
                       /\ w.lastSeen \in Nat
                       /\ w.sid # drawn + 1 /\ w.jti # drawn + 1
  BY <1>0, WorkingFields DEF ManagerTypes
<1>4. \A sid, sub, client : OwnedBy(sid, sub, client) => OwnedBy(sid, sub, client)'
  BY DEF OwnedBy, Evolves
<1>5. \A jti, sid : IsToken(jti, sid) => IsToken(jti, sid)'
  BY DEF IsToken, Evolves
<1>6. ASSUME NEW jti, jti # drawn + 1, Retired(jti) PROVE Retired(jti)'
  <2>1. jti \in DOMAIN history' /\ history[jti] <= history'[jti] /\ history[jti] \in Nat /\ history'[jti] \in Nat
    BY <1>0, <1>6 DEF Retired, Evolves, ManagerTypes
  <2>2. ASSUME NEW t \in issued', t.jti = jti PROVE t.iat <= history'[jti]
    <3>1. t \in issued /\ t.iat <= history[jti] /\ t.iat \in Nat
      BY <1>0, <1>2, <1>6, <2>2 DEF Retired, ManagerTypes
    <3> QED
      BY <2>1, <3>1
  <2> QED
    BY <2>1, <2>2 DEF Retired
<1>7. Granting(r)'
  BY <1>0, <1>1, <1>3, <1>4, <1>5, <1>6 DEF Granting, Work
<1>8. Terminating(r)'
  BY <1>0 DEF Terminating, Work, Evolves
<1>9. Revoking(r)'
  <2> SUFFICES ASSUME w.pc \in {"revoke", "check", "bar"} PROVE Revoking(r)'
    BY DEF Revoking
  <2>1. \/ w.sid = 0
        \/ OwnedBy(w.sid, w.sub, w.client)'
        \/ /\ w.sid \notin DOMAIN owner'
           /\ StaticIssuer \/ \A t \in issued' : t.jti # w.sid
    <3>1. CASE OwnedBy(w.sid, w.sub, w.client)
      BY <1>4, <3>1
    <3>2. CASE /\ w.sid \notin DOMAIN owner
               /\ StaticIssuer \/ \A t \in issued : t.jti # w.sid
      BY <1>2, <1>3, <3>2 DEF Evolves
    <3> QED
      BY <1>0, <3>1, <3>2 DEF Work, Revoking
  <2>2. ASSUME w.pc = "revoke", w.sid = 0, NEW t \in issued', t.jti = w.jti PROVE owner'[t.sid].sub = w.sub
    <3>1. t \in issued
      BY <1>2, <1>3, <2>2
    <3>2. t.sid \in DOMAIN owner /\ owner[t.sid].sub = w.sub
      BY <1>0, <2>2, <3>1 DEF Work, Revoking, IdsApart
    <3> QED
      BY <3>2 DEF Evolves
  <2>3. w.pc = "revoke" /\ w.sid \in DOMAIN accessTokens' => accessTokens'[w.sid].sub = w.sub
    BY <1>0, <1>3 DEF Work, Revoking, Evolves
  <2> QED
    BY <2>1, <2>2, <2>3 DEF Revoking, OwnedBy
<1> QED
  BY <1>7, <1>8, <1>9 DEF Work

(* So a step that moves one request leaves only that one's work to check.  *)
LEMMA OneMoves ==
  ASSUME IInv, RTP!IInv, ManagerTypes', Evolves, SessionsType',
         NEW r \in Reqs, req' = [req EXCEPT ![r] = req'[r]],
         req'[r] \in Working' \cup {Idle}, Work(r)'
  PROVE  ReqType' /\ \A q \in Reqs : Work(q)'
<1>1. req \in [Reqs -> Working \cup {Idle}] /\ Working \subseteq Working'
  BY TypesPersist DEF IInv, StorageTypes, ReqType
<1>2. ReqType'
  BY <1>1 DEF ReqType
<1>3. ASSUME NEW q \in Reqs PROVE Work(q)'
  <2>1. CASE q = r
    BY <2>1
  <2>2. CASE q # r
    <3>1. req'[q] = req[q]
      BY <1>1, <2>2
    <3> QED
      BY <3>1, WorkKept
  <2> QED
    BY <2>1, <2>2
<1> QED
  BY <1>2, <1>3

LEMMA IdleWorks == ASSUME NEW r \in Reqs, req[r] = Idle PROVE Work(r)
BY DEF Work, Granting, Terminating, Revoking, Idle

LEMMA IdleWorksNext == ASSUME NEW r \in Reqs, req'[r] = Idle PROVE Work(r)'
BY DEF Work, Granting, Terminating, Revoking, Idle

LEMMA NobodyMoves ==
  ASSUME IInv, RTP!IInv, ManagerTypes', Evolves, SessionsType', req' = req
  PROVE  ReqType' /\ \A q \in Reqs : Work(q)'
<1>1. Working \subseteq Working'
  BY TypesPersist DEF IInv
<1>2. \A q \in Reqs : Work(q)'
  BY WorkKept
<1> QED
  BY <1>1, <1>2 DEF IInv, StorageTypes, ReqType

(* The sids a logout took off the map stay barred or in its hands, as long *)
(* as it keeps them.                                                       *)
LEMMA PendingKept ==
  ASSUME IInv, Evolves, terminated' = terminated,
         \A q \in Reqs : req[q].pc = "terminate" =>
           \A sid \in req[q].todo :
             \/ req'[q].pc = "terminate" /\ sid \in req'[q].todo
             \/ sid \in DOMAIN history'
  PROVE  TerminatedPending'
BY DEF IInv, TerminatedPending, Evolves

LEMMA IdsKept ==
  ASSUME IdsApart, owner' = owner, issued' = issued,
         DOMAIN accessTokens' \subseteq DOMAIN accessTokens
  PROVE  IdsApart'
BY DEF IdsApart

(* A step that leaves the manager and Storage alone.                       *)
LEMMA QuietEvolves ==
  ASSUME IInv, RTP!IInv, UNCHANGED <<manager, owner, store, held, ghosts>>
  PROVE  Evolves /\ ManagerTypes' /\ SessionsType'
<1>0. ManagerTypes /\ SessionsType
  BY ManagerTyped DEF IInv, StorageTypes
<1>1. Evolves
  <2>1. \A sid \in DOMAIN sessions : sessions[sid].lastSeen <= sessions[sid].lastSeen
    BY <1>0 DEF SessionsType, Keyed, ManagerTypes
  <2> QED
    BY <1>0, <2>1 DEF Evolves, manager, store, ghosts, ManagerTypes
<1> QED
  BY <1>0, <1>1 DEF ManagerTypes, SessionsType, Keyed, manager, store

(* A step that moves one request and does not touch what Storage keeps.    *)
LEMMA StorageStill ==
  ASSUME IInv, RTP!IInv, ManagerTypes', Evolves, NEW r \in Reqs,
         UNCHANGED <<issued, owner, store, held, ghosts>>,
         req' = [req EXCEPT ![r] = req'[r]],
         req'[r] \in Working' \cup {Idle}, Work(r)',
         req[r].pc = "terminate" =>
           \A sid \in req[r].todo :
             \/ req'[r].pc = "terminate" /\ sid \in req'[r].todo
             \/ sid \in DOMAIN history'
  PROVE  IInv'
<1>0. StorageTypes /\ SessionsType'
  BY TypesPersist DEF IInv, store
<1>1. ReqType' /\ \A q \in Reqs : Work(q)'
  BY <1>0, OneMoves
<1>2. LoginsOwned' /\ SeenCovered' /\ SpentBarred' /\ SessionsOwned'
  BY <1>0, Kept DEF store, ghosts
<1>3. TerminatedPending'
  <2>1. req \in [Reqs -> Working \cup {Idle}]
    BY DEF IInv, StorageTypes, ReqType
  <2>2. \A q \in Reqs : q = r \/ req'[q] = req[q]
    BY <2>1
  <2> QED
    BY <2>2, PendingKept DEF ghosts
<1>4. IdsApart'
  BY IdsKept DEF IInv, store
<1>5. StorageTypes'
  BY <1>0, <1>1, TypesPersist DEF StorageTypes, store, ghosts
<1> QED
  BY <1>1, <1>2, <1>3, <1>4, <1>5 DEF IInv

LEMMA OnlyRequest ==
  ASSUME IInv, RTP!IInv, NEW r \in Reqs,
         UNCHANGED <<manager, owner, store, held, ghosts>>,
         req' = [req EXCEPT ![r] = req'[r]],
         req'[r] \in Working' \cup {Idle}, Work(r)',
         req[r].pc = "terminate" => req[r].todo = {}
  PROVE  IInv'
<1>1. issued' = issued
  BY DEF manager
<1> QED
  BY <1>1, QuietEvolves, StorageStill

-----------------------------------------------------------------------------
(* The steps that only begin, move or end a request.                       *)
LEMMA RedeemBeginKeeps ==
  ASSUME IInv, RTP!IInv, NEW r \in Reqs, NEW l \in logins, RedeemBegin(r, l)
  PROVE  IInv'
<1>0. ManagerTypes /\ StorageTypes /\ UNCHANGED <<manager, owner, store, held, ghosts>>
  BY ManagerTyped DEF IInv, RedeemBegin
<1>1. Evolves /\ SessionsType' /\ Working \subseteq Working'
  BY <1>0, QuietEvolves, TypesPersist
<1>2. /\ l \in [sid : 1..drawn, sub : Subs, client : Clients, at : 0..now]
      /\ OwnedBy(l.sid, l.sub, l.client) /\ Covered(l.sid, l.at)
  BY <1>0 DEF IInv, LoginsOwned, StorageTypes, LoginsType
<1>3. req \in [Reqs -> Working \cup {Idle}] /\ req[r] = Idle
  BY <1>0 DEF StorageTypes, ReqType, RedeemBegin
<1>4. /\ req' = [req EXCEPT ![r] = req'[r]]
      /\ req'[r] = Begin("code", "store", l, l.sid, 0, l.at)
  BY <1>3 DEF RedeemBegin
<1>5. /\ req'[r] \in Working' \cup {Idle}
      /\ req'[r].pc = "store" /\ req'[r].kind = "code" /\ req'[r].lastSeen = l.at
      /\ req'[r].sid = l.sid /\ req'[r].sub = l.sub /\ req'[r].client = l.client
  <2>1. Begin("code", "store", l, l.sid, 0, l.at) \in Working
    BY <1>0, <1>2 DEF Begin, Working, ManagerTypes
  <2> QED
    BY <1>1, <1>4, <2>1 DEF Begin
<1>6. Work(r)'
  <2>1. OwnedBy(l.sid, l.sub, l.client)' /\ Covered(l.sid, l.at)'
    BY <1>0, <1>2 DEF OwnedBy, Covered, manager, store, ghosts
  <2> QED
    BY <1>5, <2>1 DEF Work, Granting, Terminating, Revoking
<1> QED
  BY <1>0, <1>3, <1>4, <1>5, <1>6, OnlyRequest DEF Idle

LEMMA TokenOwned ==
  ASSUME IInv, NEW t \in issued
  PROVE  t.sid \in DOMAIN owner /\ owner[t.sid] \in Who
BY DEF IInv, IdsApart, StorageTypes, OwnerType, Keyed

LEMMA RefreshBeginKeeps ==
  ASSUME IInv, RTP!IInv, NEW r \in Reqs, NEW t \in issued, RefreshBegin(r, t)
  PROVE  IInv'
<1>0. ManagerTypes /\ StorageTypes /\ UNCHANGED <<manager, owner, store, held, ghosts>>
  BY ManagerTyped DEF IInv, RefreshBegin
<1>1. Evolves /\ SessionsType' /\ Working \subseteq Working'
  BY <1>0, QuietEvolves, TypesPersist
<1>2. /\ t.sid \in 1..drawn /\ t.jti \in 1..drawn
      /\ t.sid \in DOMAIN owner /\ owner[t.sid] \in Who
  BY <1>0, TokenOwned DEF ManagerTypes
<1>3. req \in [Reqs -> Working \cup {Idle}] /\ req[r] = Idle
  BY <1>0 DEF StorageTypes, ReqType, RefreshBegin
<1>4. /\ req' = [req EXCEPT ![r] = req'[r]]
      /\ req'[r] = Begin("refresh", "store", owner[t.sid], t.sid, t.jti, 0)
  BY <1>3 DEF RefreshBegin
<1>5. /\ req'[r] \in Working' \cup {Idle}
      /\ req'[r].pc = "store" /\ req'[r].kind = "refresh" /\ req'[r].jti = t.jti
      /\ req'[r].sid = t.sid /\ req'[r].sub = owner[t.sid].sub
      /\ req'[r].client = owner[t.sid].client
  <2>1. Begin("refresh", "store", owner[t.sid], t.sid, t.jti, 0) \in Working
    BY <1>0, <1>2 DEF Begin, Working, Who, ManagerTypes
  <2> QED
    BY <1>1, <1>4, <2>1 DEF Begin
<1>6. Work(r)'
  <2>1. owner' = owner /\ issued' = issued
    BY <1>0 DEF manager
  <2>2. IsToken(req[r].jti, req[r].sid)' /\ OwnedBy(req[r].sid, req[r].sub, req[r].client)'
    BY <1>2, <1>5, <2>1 DEF IsToken, OwnedBy
  <2> QED
    BY <1>5, <2>2 DEF Work, Granting, Terminating, Revoking
<1> QED
  BY <1>0, <1>3, <1>4, <1>5, <1>6, OnlyRequest DEF Idle

LEMMA RevokeRefreshBeginKeeps ==
  ASSUME IInv, RTP!IInv, NEW r \in Reqs, NEW t \in issued, NEW c \in Clients,
         RevokeRefreshBegin(r, t, c)
  PROVE  IInv'
<1>0. ManagerTypes /\ StorageTypes /\ UNCHANGED <<manager, owner, store, held, ghosts>>
  BY ManagerTyped DEF IInv, RevokeRefreshBegin
<1>1. Evolves /\ SessionsType' /\ Working \subseteq Working'
  BY <1>0, QuietEvolves, TypesPersist
<1>2. /\ t.sid \in 1..drawn /\ t.sid \in DOMAIN owner /\ owner[t.sid] \in Who
  BY <1>0, TokenOwned DEF ManagerTypes
<1>3. req \in [Reqs -> Working \cup {Idle}] /\ req[r] = Idle
  BY <1>0 DEF StorageTypes, ReqType, RevokeRefreshBegin
<1>4. /\ req' = [req EXCEPT ![r] = req'[r]]
      /\ req'[r] = Begin("revoke", "revoke", owner[t.sid], t.sid, 0, 0)
  BY <1>3 DEF RevokeRefreshBegin
<1>5. /\ req'[r] \in Working' \cup {Idle}
      /\ req'[r].pc = "revoke" /\ req'[r].sid = t.sid
      /\ req'[r].sub = owner[t.sid].sub /\ req'[r].client = owner[t.sid].client
  <2>1. Begin("revoke", "revoke", owner[t.sid], t.sid, 0, 0) \in Working
    BY <1>0, <1>2 DEF Begin, Working, Who, ManagerTypes
  <2> QED
    BY <1>1, <1>4, <2>1 DEF Begin
<1>6. Work(r)'
  <2>1. owner' = owner /\ accessTokens' = accessTokens
    BY <1>0 DEF store
  <2>2. OwnedBy(req[r].sid, req[r].sub, req[r].client)'
    BY <1>2, <1>5, <2>1 DEF OwnedBy
  <2>3. t.sid \notin DOMAIN accessTokens' /\ t.sid # 0
    BY <1>0, <1>2, <2>1 DEF IInv, IdsApart, ManagerTypes
  <2> QED
    BY <1>5, <2>2, <2>3 DEF Work, Granting, Terminating, Revoking
<1> QED
  BY <1>0, <1>3, <1>4, <1>5, <1>6, OnlyRequest DEF Idle

LEMMA RevokeAccessBeginKeeps ==
  ASSUME IInv, RTP!IInv, NEW r \in Reqs, NEW j \in DOMAIN accessTokens,
         NEW c \in Clients, RevokeAccessBegin(r, j, c)
  PROVE  IInv'
<1>0. ManagerTypes /\ StorageTypes /\ UNCHANGED <<manager, owner, store, held, ghosts>>
  BY ManagerTyped DEF IInv, RevokeAccessBegin
<1>1. Evolves /\ SessionsType' /\ Working \subseteq Working'
  BY <1>0, QuietEvolves, TypesPersist
<1>2. j \in 1..drawn /\ accessTokens[j].sub \in Subs
  BY <1>0 DEF StorageTypes, AccessType, Keyed
<1>3. req \in [Reqs -> Working \cup {Idle}] /\ req[r] = Idle
  BY <1>0 DEF StorageTypes, ReqType, RevokeAccessBegin
<1>4. /\ req' = [req EXCEPT ![r] = req'[r]]
      /\ req'[r] = Begin("revoke", "revoke", [sub |-> accessTokens[j].sub, client |-> c], j, 0, 0)
  BY <1>3 DEF RevokeAccessBegin
<1>5. /\ req'[r] \in Working' \cup {Idle}
      /\ req'[r].pc = "revoke" /\ req'[r].sid = j /\ req'[r].sub = accessTokens[j].sub
  <2>1. Begin("revoke", "revoke", [sub |-> accessTokens[j].sub, client |-> c], j, 0, 0) \in Working
    BY <1>0, <1>2 DEF Begin, Working, ManagerTypes
  <2> QED
    BY <1>1, <1>4, <2>1 DEF Begin
<1>6. Work(r)'
  <2>1. owner' = owner /\ accessTokens' = accessTokens /\ issued' = issued
    BY <1>0 DEF manager, store
  <2>2. j \notin DOMAIN owner' /\ j # 0 /\ \A t \in issued' : t.jti # j
    BY <1>0, <1>2, <2>1 DEF IInv, IdsApart, ManagerTypes
  <2> QED
    BY <1>5, <2>1, <2>2 DEF Work, Granting, Terminating, Revoking
<1> QED
  BY <1>0, <1>3, <1>4, <1>5, <1>6, OnlyRequest DEF Idle

LEMMA RevokeRawBeginKeeps ==
  ASSUME IInv, RTP!IInv, NEW r \in Reqs, NEW t \in issued, NEW c \in Clients,
         RevokeRawBegin(r, t, c)
  PROVE  IInv'
<1>0. ManagerTypes /\ StorageTypes /\ UNCHANGED <<manager, owner, store, held, ghosts>>
  BY ManagerTyped DEF IInv, RevokeRawBegin
<1>1. Evolves /\ SessionsType' /\ Working \subseteq Working'
  BY <1>0, QuietEvolves, TypesPersist
<1>2. /\ t.jti \in 1..drawn /\ t.sid \in DOMAIN owner /\ owner[t.sid] \in Who
  BY <1>0, TokenOwned DEF ManagerTypes
<1>3. req \in [Reqs -> Working \cup {Idle}] /\ req[r] = Idle
  BY <1>0 DEF StorageTypes, ReqType, RevokeRawBegin
<1>4. /\ req' = [req EXCEPT ![r] = req'[r]]
      /\ req'[r] = Begin("revoke", "revoke", [sub |-> owner[t.sid].sub, client |-> c],
                         RT!NoId, t.jti, 0)
  BY <1>3 DEF RevokeRawBegin
<1>5. /\ req'[r] \in Working' \cup {Idle}
      /\ req'[r].pc = "revoke" /\ req'[r].sid = 0 /\ req'[r].jti = t.jti
      /\ req'[r].sub = owner[t.sid].sub
  <2>1. Begin("revoke", "revoke", [sub |-> owner[t.sid].sub, client |-> c], RT!NoId, t.jti, 0)
          \in Working
    BY <1>0, <1>2 DEF Begin, Working, Who, RT!NoId, ManagerTypes
  <2> QED
    BY <1>1, <1>4, <2>1 DEF Begin, RT!NoId
<1>6. Work(r)'
  <2>1. owner' = owner /\ accessTokens' = accessTokens /\ issued' = issued
    BY <1>0 DEF manager, store
  <2>2. 0 \notin DOMAIN accessTokens'
    BY <1>0, <2>1 DEF StorageTypes, AccessType, Keyed, ManagerTypes
  <2>3. \A u \in issued' : u.jti = t.jti => owner'[u.sid].sub = owner[t.sid].sub
    BY <2>1 DEF IInv, IdsApart
  <2> QED
    BY <1>5, <2>2, <2>3 DEF Work, Granting, Terminating, Revoking
<1> QED
  BY <1>0, <1>3, <1>4, <1>5, <1>6, OnlyRequest DEF Idle

LEMMA RevokeJtiBeginKeeps ==
  ASSUME IInv, RTP!IInv, NEW r \in Reqs, NEW t \in issued, NEW c \in Clients,
         RevokeJtiBegin(r, t, c)
  PROVE  IInv'
<1>0. /\ ManagerTypes /\ StorageTypes /\ StaticIssuer
      /\ UNCHANGED <<manager, owner, store, held, ghosts>>
  BY ManagerTyped DEF IInv, RevokeJtiBegin, ReadsAsAccess
<1>1. Evolves /\ SessionsType' /\ Working \subseteq Working'
  BY <1>0, QuietEvolves, TypesPersist
<1>2. /\ t.jti \in 1..drawn /\ t.sid \in DOMAIN owner /\ owner[t.sid] \in Who
  BY <1>0, TokenOwned DEF ManagerTypes
<1>3. req \in [Reqs -> Working \cup {Idle}] /\ req[r] = Idle
  BY <1>0 DEF StorageTypes, ReqType, RevokeJtiBegin
<1>4. /\ req' = [req EXCEPT ![r] = req'[r]]
      /\ req'[r] = Begin("revoke", "revoke", [sub |-> owner[t.sid].sub, client |-> c],
                         t.jti, 0, 0)
  BY <1>3 DEF RevokeJtiBegin
<1>5. /\ req'[r] \in Working' \cup {Idle}
      /\ req'[r].pc = "revoke" /\ req'[r].sid = t.jti
  <2>1. Begin("revoke", "revoke", [sub |-> owner[t.sid].sub, client |-> c], t.jti, 0, 0)
          \in Working
    BY <1>0, <1>2 DEF Begin, Working, Who, ManagerTypes
  <2> QED
    BY <1>1, <1>4, <2>1 DEF Begin
<1>6. Work(r)'
  <2>1. owner' = owner /\ accessTokens' = accessTokens
    BY <1>0 DEF store
  <2>2. t.jti \notin DOMAIN owner' \cup DOMAIN accessTokens' /\ t.jti # 0
    BY <1>0, <1>2, <2>1 DEF IInv, IdsApart, ManagerTypes
  <2> QED
    BY <1>0, <1>5, <2>2 DEF Work, Granting, Terminating, Revoking
<1> QED
  BY <1>0, <1>3, <1>4, <1>5, <1>6, OnlyRequest DEF Idle

LEMMA LogoutEndKeeps ==
  ASSUME IInv, RTP!IInv, NEW r \in Reqs, LogoutEnd(r) PROVE IInv'
<1>1. req \in [Reqs -> Working \cup {Idle}]
  BY DEF IInv, StorageTypes, ReqType
<1>2. /\ UNCHANGED <<manager, owner, store, held, ghosts>> /\ req[r].todo = {}
      /\ req' = [req EXCEPT ![r] = req'[r]] /\ req'[r] = Idle
  BY <1>1 DEF LogoutEnd, Finish
<1> QED
  BY <1>2, IdleWorksNext, OnlyRequest DEF Idle

(* A revocation under way that only changes its pc, or ends, goes on.      *)
LEMMA RevocationMoves ==
  ASSUME IInv, RTP!IInv, NEW r \in Reqs, req[r].pc \in {"revoke", "check"},
         UNCHANGED <<manager, owner, store, held, ghosts>>,
         Goto(r, "check") \/ Goto(r, "bar") \/ Finish(r)
  PROVE  IInv'
<1>0. StorageTypes /\ Work(r) /\ Evolves /\ SessionsType' /\ Working \subseteq Working'
  BY QuietEvolves, TypesPersist DEF IInv
<1>1. req \in [Reqs -> Working \cup {Idle}] /\ req[r] \in Working
  BY <1>0, WorkingFields DEF StorageTypes, ReqType
<1>2. req' = [req EXCEPT ![r] = req'[r]]
  BY <1>1 DEF Goto, Finish
<1>3. ASSUME NEW pc \in {"check", "bar"}, Goto(r, pc)
      PROVE  req'[r] \in Working' \cup {Idle} /\ Work(r)'
  <2>1. req'[r] = [req[r] EXCEPT !.pc = pc]
    BY <1>1, <1>3 DEF Goto
  <2>2. req'[r] \in Working /\ req'[r].pc = pc
    BY <1>1, <2>1 DEF Working
  <2>3. /\ req'[r].sid = req[r].sid /\ req'[r].sub = req[r].sub
        /\ req'[r].client = req[r].client
    BY <1>1, <2>1 DEF Working
  <2>4. owner' = owner /\ issued' = issued
    BY DEF manager
  <2>5. \/ req[r].sid = 0
        \/ OwnedBy(req[r].sid, req[r].sub, req[r].client)
        \/ /\ req[r].sid \notin DOMAIN owner
           /\ StaticIssuer \/ \A t \in issued : t.jti # req[r].sid
    BY <1>0 DEF Work, Revoking
  <2>6. Work(r)'
    BY <2>2, <2>3, <2>4, <2>5 DEF Work, Granting, Terminating, Revoking, OwnedBy
  <2> QED
    BY <1>0, <2>2, <2>6
<1>4. CASE Finish(r)
  <2>1. req'[r] = Idle
    BY <1>1, <1>4 DEF Finish
  <2> QED
    BY <1>1, <1>2, <2>1, IdleWorksNext, OnlyRequest
<1> QED
  BY <1>1, <1>2, <1>3, <1>4, OnlyRequest

LEMMA RevokeOtherKeeps ==
  ASSUME IInv, RTP!IInv, NEW r \in Reqs, RevokeOther(r) PROVE IInv'
BY RevocationMoves DEF RevokeOther

LEMMA RevokeCheckKeeps ==
  ASSUME IInv, RTP!IInv, NEW r \in Reqs, RevokeCheck(r) PROVE IInv'
BY RevocationMoves DEF RevokeCheck

LEMMA RevokeRawKeeps ==
  ASSUME IInv, RTP!IInv, NEW r \in Reqs, RevokeRaw(r) PROVE IInv'
<1>0. /\ StorageTypes /\ Work(r) /\ ManagerTypes /\ Working \subseteq Working'
      /\ UNCHANGED <<manager, owner, store, held, ghosts>>
      /\ req[r].pc = "revoke" /\ req[r].sid = 0
  BY QuietEvolves, TypesPersist, ManagerTyped DEF IInv, RevokeRaw, RT!NoId
<1>1. req \in [Reqs -> Working \cup {Idle}] /\ req[r] \in Working
  BY <1>0, WorkingFields DEF StorageTypes, ReqType
<1>2. PICK t \in issued :
        /\ t.jti = req[r].jti
        /\ \/ Goto(r, "check")
           \/ /\ owner[t.sid].client = req[r].client
              /\ req' = [req EXCEPT ![r].pc = "bar", ![r].sid = t.sid]
           \/ Finish(r)
  BY DEF RevokeRaw
<1>3. CASE owner[t.sid].client = req[r].client /\ req' = [req EXCEPT ![r].pc = "bar", ![r].sid = t.sid]
  <2>1. t.sid \in 1..drawn /\ t.sid \in DOMAIN owner /\ owner[t.sid].sub = req[r].sub
    BY <1>0, <1>2, TokenOwned DEF ManagerTypes, Work, Revoking
  <2>2. req'[r] = [req[r] EXCEPT !.pc = "bar", !.sid = t.sid]
    BY <1>1, <1>3
  <2>3. req'[r] \in Working
    <3>1. t.sid \in 0..drawn
      BY <1>0, <2>1 DEF ManagerTypes
    <3> QED
      BY <1>1, <2>2, <3>1 DEF Working
  <2>4. /\ req'[r].pc = "bar" /\ req'[r].sid = t.sid /\ req'[r].sub = req[r].sub
        /\ req'[r].client = req[r].client
    BY <1>1, <2>2 DEF Working
  <2>5. OwnedBy(req[r].sid, req[r].sub, req[r].client)'
    BY <1>0, <1>3, <2>1, <2>4 DEF OwnedBy
  <2>6. Work(r)'
    BY <2>4, <2>5 DEF Work, Granting, Terminating, Revoking
  <2>7. req' = [req EXCEPT ![r] = req'[r]]
    BY <1>1, <1>3
  <2> QED
    BY <1>0, <2>3, <2>6, <2>7, OnlyRequest
<1> QED
  BY <1>0, <1>2, <1>3, RevocationMoves

-----------------------------------------------------------------------------
(* The steps that enter an identifier on the denylist.                     *)
LEMMA RevokeEvolves ==
  ASSUME IInv, RTP!IInv, NEW id, RT!Revoke(id), UNCHANGED <<owner, store, held, ghosts>>
  PROVE  /\ Evolves /\ ManagerTypes' /\ issued' = issued
         /\ id \in DOMAIN history' /\ history'[id] = now
<1>0. ManagerTypes /\ SessionsType /\ \A x \in DOMAIN history : history[x] \in 0..now
  BY ManagerTyped, ManagerFacts DEF IInv, StorageTypes
<1>1. history' = RT!Recording(id) /\ UNCHANGED <<now, drawn, ttl, issued>>
  BY DEF RT!Revoke
<1>2. /\ DOMAIN history' = DOMAIN history \cup {id}
      /\ \A x \in DOMAIN history' : history'[x] = IF x = id THEN now ELSE history[x]
  BY <1>1 DEF RT!Recording
<1>3. \A x \in DOMAIN history : x \in DOMAIN history' /\ history[x] <= history'[x]
  BY <1>0, <1>2 DEF ManagerTypes
<1>4. \A sid \in DOMAIN sessions : sessions[sid].lastSeen <= sessions[sid].lastSeen
  BY <1>0 DEF SessionsType, Keyed, ManagerTypes
<1>5. Evolves
  BY <1>0, <1>1, <1>3, <1>4 DEF Evolves, store, ghosts, ManagerTypes
<1>6. ManagerTypes'
  BY <1>0, <1>1, <1>2 DEF ManagerTypes
<1> QED
  BY <1>1, <1>2, <1>5, <1>6

(* What a request is after it has moved to another pc.                     *)
LEMMA GotoFields ==
  ASSUME IInv, RTP!IInv, NEW r \in Reqs, req[r].pc # "idle",
         NEW pc \in {"touch", "store", "issue", "rotate", "finish", "bar"}, Goto(r, pc)
  PROVE  /\ req' = [req EXCEPT ![r] = req'[r]]
         /\ req'[r] = [req[r] EXCEPT !.pc = pc]
         /\ req'[r] \in Working
         /\ req'[r].pc = pc /\ req'[r].kind = req[r].kind /\ req'[r].sub = req[r].sub
         /\ req'[r].client = req[r].client /\ req'[r].sid = req[r].sid
         /\ req'[r].jti = req[r].jti /\ req'[r].lastSeen = req[r].lastSeen
         /\ req'[r].new = req[r].new
<1>1. req \in [Reqs -> Working \cup {Idle}] /\ req[r] \in Working
  BY WorkingFields DEF IInv, StorageTypes, ReqType
<1>2. req'[r] = [req[r] EXCEPT !.pc = pc] /\ req' = [req EXCEPT ![r] = req'[r]]
  BY <1>1 DEF Goto
<1>3. req'[r] \in Working
  BY <1>1, <1>2 DEF Working
<1> QED
  BY <1>1, <1>2, <1>3 DEF Working

LEMMA RotateKeeps ==
  ASSUME IInv, RTP!IInv, NEW r \in Reqs, Rotate(r) PROVE IInv'
<1>0. /\ req[r].pc = "rotate" /\ RT!Revoke(req[r].jti) /\ Goto(r, "touch")
      /\ UNCHANGED <<owner, store, held, ghosts>> /\ Work(r)
  BY DEF Rotate, IInv
<1>1. /\ Evolves /\ ManagerTypes' /\ issued' = issued
      /\ req[r].jti \in DOMAIN history' /\ history'[req[r].jti] = now
  BY <1>0, RevokeEvolves
<1>2. Working \subseteq Working'
  BY <1>1, TypesPersist DEF IInv
<1>3. /\ req' = [req EXCEPT ![r] = req'[r]] /\ req'[r] \in Working
      /\ req'[r].pc = "touch" /\ req'[r].kind = req[r].kind /\ req'[r].sub = req[r].sub
      /\ req'[r].client = req[r].client /\ req'[r].sid = req[r].sid
      /\ req'[r].jti = req[r].jti /\ req'[r].new = req[r].new
  BY <1>0, GotoFields
<1>4. /\ OwnedBy(req[r].sid, req[r].sub, req[r].client) /\ req[r].kind = "refresh"
      /\ IsToken(req[r].jti, req[r].sid) /\ IsToken(req[r].new, req[r].sid)
  BY <1>0 DEF Work, Granting
<1>5. /\ OwnedBy(req[r].sid, req[r].sub, req[r].client)'
      /\ IsToken(req[r].jti, req[r].sid)' /\ IsToken(req[r].new, req[r].sid)'
  BY <1>0, <1>1, <1>3, <1>4 DEF OwnedBy, IsToken
<1>6. Retired(req[r].jti)'
  <2>1. \A t \in issued : t.iat \in 0..now
    BY ManagerFacts
  <2> QED
    BY <1>1, <1>3, <2>1 DEF Retired
<1>7. Work(r)'
  BY <1>3, <1>4, <1>5, <1>6 DEF Work, Granting, Terminating, Revoking
<1> QED
  BY <1>0, <1>1, <1>2, <1>3, <1>7, StorageStill

LEMMA RevokeBarKeeps ==
  ASSUME IInv, RTP!IInv, NEW r \in Reqs, RevokeBar(r) PROVE IInv'
<1>1. req \in [Reqs -> Working \cup {Idle}]
  BY DEF IInv, StorageTypes, ReqType
<1>2. /\ UNCHANGED <<owner, store, held, ghosts>> /\ req[r].pc = "bar"
      /\ req' = [req EXCEPT ![r] = req'[r]] /\ req'[r] = Idle
  BY <1>1 DEF RevokeBar, Finish
<1>3. Evolves /\ ManagerTypes' /\ issued' = issued
  BY <1>2, RevokeEvolves DEF RevokeBar
<1> QED
  BY <1>2, <1>3, IdleWorksNext, StorageStill

LEMMA LogoutRevokeKeeps ==
  ASSUME IInv, RTP!IInv, NEW r \in Reqs, NEW sid \in 1..drawn, LogoutRevoke(r, sid)
  PROVE  IInv'
<1>0. /\ req[r].pc = "terminate" /\ UNCHANGED <<owner, store, held, ghosts>> /\ Work(r)
      /\ req \in [Reqs -> Working \cup {Idle}] /\ req[r] \in Working
  BY WorkingFields DEF LogoutRevoke, IInv, StorageTypes, ReqType
<1>1. Evolves /\ ManagerTypes' /\ issued' = issued /\ sid \in DOMAIN history'
  BY <1>0, RevokeEvolves DEF LogoutRevoke
<1>2. Working \subseteq Working'
  BY <1>1, TypesPersist DEF IInv
<1>3. /\ req' = [req EXCEPT ![r] = req'[r]]
      /\ req'[r] = [req[r] EXCEPT !.todo = @ \ {sid}]
  BY <1>0 DEF LogoutRevoke
<1>4. /\ req'[r] \in Working /\ req'[r].pc = "terminate"
      /\ req'[r].sub = req[r].sub /\ req'[r].client = req[r].client
      /\ req'[r].todo = req[r].todo \ {sid}
  BY <1>0, <1>3 DEF Working
<1>5. Work(r)'
  BY <1>0, <1>4 DEF Work, Granting, Terminating, Revoking
<1> QED
  BY <1>0, <1>1, <1>2, <1>3, <1>4, <1>5, StorageStill

-----------------------------------------------------------------------------
(* The steps that draw an identifier.                                      *)
LEMMA IdsFresh ==
  ASSUME IInv, RTP!IInv,
         \/ /\ DOMAIN owner' = DOMAIN owner \cup {drawn + 1}
            /\ issued' = issued /\ accessTokens' = accessTokens
         \/ /\ DOMAIN accessTokens' \subseteq DOMAIN accessTokens \cup {drawn + 1}
            /\ issued' = issued /\ owner' = owner
         \/ /\ owner' = owner /\ accessTokens' = accessTokens
            /\ issued \subseteq issued'
            /\ \A t, u \in issued' \ issued : t = u
            /\ \A t \in issued' \ issued : t.jti = drawn + 1 /\ t.sid \in DOMAIN owner
  PROVE  IdsApart'
<1>0. /\ IdsApart /\ ManagerTypes
      /\ DOMAIN owner \subseteq 1..drawn /\ DOMAIN accessTokens \subseteq 1..drawn
  BY ManagerTyped DEF IInv, StorageTypes, OwnerType, AccessType, Keyed
<1>1. /\ drawn + 1 \notin DOMAIN owner /\ drawn + 1 \notin DOMAIN accessTokens
      /\ \A t \in issued : t.jti # drawn + 1
  BY <1>0 DEF ManagerTypes
<1> QED
  BY <1>0, <1>1 DEF IdsApart

LEMMA RegisteringFacts ==
  ASSUME SessionsType, ManagerTypes, NEW sid, sid \in 1..drawn', drawn' \in Nat,
         drawn <= drawn', now' = now, NEW who, who.sub \in Subs, who.client \in Clients,
         sessions' = Registering(sid, who)
  PROVE  /\ SessionsType'
         /\ sid \in DOMAIN sessions' /\ sessions'[sid].lastSeen = now
         /\ sessions'[sid].sub = who.sub /\ sessions'[sid].client = who.client
         /\ \A x \in DOMAIN sessions' :
              x = sid \/ (x \in DOMAIN sessions /\ sessions'[x] = sessions[x])
         /\ \A x \in DOMAIN sessions :
              \/ x \in DOMAIN sessions' /\ sessions[x].lastSeen <= sessions'[x].lastSeen
              \/ sessions[x].lastSeen + ttl < now
<1>1. /\ DOMAIN sessions' = (DOMAIN sessions \ Stale) \cup {sid}
      /\ sessions'[sid] = [sub |-> who.sub, client |-> who.client, lastSeen |-> now]
      /\ \A x \in DOMAIN sessions \ Stale : x = sid \/ sessions'[x] = sessions[x]
      /\ sessions' \in [DOMAIN sessions' -> [sub : Subs, client : Clients, lastSeen : 0..now]]
  BY DEF Registering, Put, Without, SessionsType, Keyed, ManagerTypes
<1>2. \A x \in DOMAIN sessions : sessions[x].lastSeen \in 0..now
  BY DEF SessionsType, Keyed
<1>3. SessionsType'
  BY <1>1 DEF SessionsType, Keyed, ManagerTypes
<1>4. ASSUME NEW x \in DOMAIN sessions
      PROVE  \/ x \in DOMAIN sessions' /\ sessions[x].lastSeen <= sessions'[x].lastSeen
             \/ sessions[x].lastSeen + ttl < now
  <2>1. CASE x \in Stale
    BY <1>2, <2>1 DEF Stale, ManagerTypes
  <2>2. CASE x \notin Stale
    BY <1>1, <1>2, <2>2 DEF ManagerTypes
  <2> QED
    BY <2>1, <2>2
<1> QED
  BY <1>1, <1>3, <1>4

LEMMA OwnerGrows ==
  ASSUME OwnerType, ManagerTypes, NEW who \in Who, owner' = Put(owner, drawn + 1, who)
  PROVE  /\ DOMAIN owner' = DOMAIN owner \cup {drawn + 1} /\ drawn + 1 \notin DOMAIN owner
         /\ owner'[drawn + 1] = who
         /\ \A sid \in DOMAIN owner : owner'[sid] = owner[sid]
         /\ drawn' = drawn + 1 => OwnerType'
BY DEF OwnerType, Keyed, Put, ManagerTypes

LEMMA LoginKeeps ==
  ASSUME IInv, RTP!IInv, NEW who \in Who, Login(who) PROVE IInv'
<1> DEFINE sid == drawn + 1
           l == [sid |-> sid, sub |-> who.sub, client |-> who.client, at |-> now]
<1>0. ManagerTypes /\ StorageTypes /\ who.sub \in Subs /\ who.client \in Clients
  BY ManagerTyped DEF IInv, Who
<1>1. /\ drawn' = sid /\ UNCHANGED <<now, ttl, issued, revoked, history>>
      /\ owner' = Put(owner, sid, who) /\ sessions' = Registering(sid, who)
      /\ logins' = logins \cup {l} /\ UNCHANGED <<accessTokens, held, req, ghosts>>
  BY DEF Login, RT!Draw
<1>2. /\ DOMAIN owner' = DOMAIN owner \cup {sid} /\ sid \notin DOMAIN owner
      /\ owner'[sid] = who /\ \A x \in DOMAIN owner : owner'[x] = owner[x]
      /\ OwnerType'
  BY <1>0, <1>1, OwnerGrows DEF StorageTypes
<1>3. /\ SessionsType'
      /\ sid \in DOMAIN sessions' /\ sessions'[sid].lastSeen = now
      /\ sessions'[sid].sub = who.sub /\ sessions'[sid].client = who.client
      /\ \A x \in DOMAIN sessions' :
           x = sid \/ (x \in DOMAIN sessions /\ sessions'[x] = sessions[x])
      /\ \A x \in DOMAIN sessions :
           \/ x \in DOMAIN sessions' /\ sessions[x].lastSeen <= sessions'[x].lastSeen
           \/ sessions[x].lastSeen + ttl < now
  BY <1>0, <1>1, RegisteringFacts DEF StorageTypes, ManagerTypes
<1>4. ManagerTypes'
  BY <1>0, <1>1 DEF ManagerTypes
<1>5. Evolves
  BY <1>0, <1>1, <1>2, <1>3 DEF Evolves, ghosts, ManagerTypes
<1>6. ReqType' /\ \A q \in Reqs : Work(q)'
  BY <1>1, <1>3, <1>4, <1>5, NobodyMoves
<1>7. SeenCovered' /\ SpentBarred'
  BY <1>1, <1>3, <1>4, <1>5, Kept DEF ghosts
<1>8. SessionsOwned'
  BY <1>2, <1>3 DEF IInv, SessionsOwned, OwnedBy
<1>9. LoginsOwned'
  <2>1. ASSUME NEW x \in logins PROVE OwnedBy(x.sid, x.sub, x.client)' /\ Covered(x.sid, x.at)'
    <3>1. OwnedBy(x.sid, x.sub, x.client) /\ Covered(x.sid, x.at) /\ x.at \in Nat
      BY <1>0 DEF IInv, LoginsOwned, StorageTypes, LoginsType, ManagerTypes
    <3>2. Covered(x.sid, x.at)'
      BY <1>0, <1>3, <1>4, <1>5, <3>1, CoverPersists DEF ManagerTypes
    <3> QED
      BY <1>2, <3>1, <3>2 DEF OwnedBy
  <2>2. ASSUME NEW x \in {l} PROVE OwnedBy(x.sid, x.sub, x.client)' /\ Covered(x.sid, x.at)'
    BY <1>0, <1>1, <1>2, <1>3 DEF OwnedBy, Covered, ManagerTypes
  <2> QED
    BY <1>1, <2>1, <2>2 DEF LoginsOwned
<1>10. TerminatedPending'
  BY <1>1, <1>5, PendingKept DEF ghosts
<1>11. IdsApart'
  BY <1>1, <1>2, IdsFresh
<1>12. LoginsType'
  BY <1>0, <1>1 DEF StorageTypes, LoginsType, ManagerTypes
<1>13. StorageTypes'
  BY <1>0, <1>1, <1>2, <1>3, <1>5, <1>6, <1>12, TypesPersist DEF StorageTypes, ghosts
<1> QED
  BY <1>6, <1>7, <1>8, <1>9, <1>10, <1>11, <1>13 DEF IInv

LEMMA EvictLoginKeeps ==
  ASSUME IInv, RTP!IInv, NEW l \in logins, EvictLogin(l) PROVE IInv'
<1>0. ManagerTypes /\ StorageTypes /\ UNCHANGED <<manager, owner, sessions, accessTokens, held, req, ghosts>>
  BY ManagerTyped DEF IInv, EvictLogin
<1>1. logins' \subseteq logins
  BY DEF EvictLogin
<1>2. ManagerTypes' /\ SessionsType'
  BY <1>0 DEF StorageTypes, SessionsType, Keyed, ManagerTypes, manager
<1>3. Evolves
  <2>1. \A sid \in DOMAIN sessions : sessions[sid].lastSeen <= sessions[sid].lastSeen
    BY <1>0 DEF StorageTypes, SessionsType, Keyed, ManagerTypes
  <2> QED
    BY <1>0, <2>1 DEF Evolves, manager, ghosts, ManagerTypes
<1>4. ReqType' /\ \A q \in Reqs : Work(q)'
  BY <1>0, <1>2, <1>3, NobodyMoves
<1>5. LoginsOwned' /\ SeenCovered' /\ SpentBarred' /\ SessionsOwned'
  BY <1>0, <1>1, <1>2, <1>3, Kept DEF ghosts
<1>6. TerminatedPending'
  BY <1>0, <1>3, PendingKept DEF ghosts
<1>7. IdsApart'
  BY <1>0, IdsKept DEF IInv, manager
<1>8. StorageTypes'
  BY <1>0, <1>1, <1>2, <1>3, <1>4, TypesPersist DEF StorageTypes, ghosts
<1> QED
  BY <1>4, <1>5, <1>6, <1>7, <1>8 DEF IInv

LEMMA SessionsAlone ==
  ASSUME IInv, RTP!IInv, sessions' = sessions
  PROVE  \A sid \in DOMAIN sessions :
           sid \in DOMAIN sessions' /\ sessions[sid].lastSeen <= sessions'[sid].lastSeen
BY ManagerTyped DEF IInv, StorageTypes, SessionsType, Keyed, ManagerTypes

LEMMA GrantBeginKeeps ==
  ASSUME IInv, RTP!IInv, NEW r \in Reqs, NEW who \in Who, NEW kind \in {"grant", "access"},
         GrantBegin(r, who, kind)
  PROVE  IInv'
<1> DEFINE sid == drawn + 1
<1>0. ManagerTypes /\ StorageTypes /\ who.sub \in Subs /\ who.client \in Clients
  BY ManagerTyped DEF IInv, Who
<1>1. /\ drawn' = sid /\ UNCHANGED <<now, ttl, issued, revoked, history>>
      /\ owner' = Put(owner, sid, who) /\ req[r] = Idle
      /\ req' = [req EXCEPT ![r] = Begin(kind, "touch", who, sid, 0, 0)]
      /\ UNCHANGED <<sessions, accessTokens, logins, held, seen, spent, terminated>>
  BY DEF GrantBegin, RT!Draw, store, ghosts
<1>2. /\ DOMAIN owner' = DOMAIN owner \cup {sid} /\ sid \notin DOMAIN owner
      /\ owner'[sid] = who /\ \A x \in DOMAIN owner : owner'[x] = owner[x]
      /\ OwnerType'
  BY <1>0, <1>1, OwnerGrows DEF StorageTypes
<1>3. ManagerTypes' /\ Evolves
  <2>1. ManagerTypes'
    BY <1>0, <1>1 DEF ManagerTypes
  <2> QED
    BY <1>0, <1>1, <1>2, <2>1, SessionsAlone DEF Evolves, ManagerTypes
<1>4. SessionsType' /\ Working \subseteq Working'
  BY <1>0, <1>1, <1>3, TypesPersist
<1>5. req \in [Reqs -> Working \cup {Idle}]
  BY <1>0 DEF StorageTypes, ReqType
<1>6. /\ req' = [req EXCEPT ![r] = req'[r]]
      /\ req'[r] = Begin(kind, "touch", who, sid, 0, 0)
  BY <1>1, <1>5
<1>7. /\ req'[r] \in Working' \cup {Idle}
      /\ req'[r].pc = "touch" /\ req'[r].kind = kind /\ req'[r].sid = sid
      /\ req'[r].sub = who.sub /\ req'[r].client = who.client
  <2>1. Begin(kind, "touch", who, sid, 0, 0) \in Working'
    BY <1>0, <1>1 DEF Begin, Working, ManagerTypes
  <2> QED
    BY <1>6, <2>1 DEF Begin
<1>8. Work(r)'
  <2>1. OwnedBy(req[r].sid, req[r].sub, req[r].client)'
    BY <1>2, <1>7 DEF OwnedBy
  <2> QED
    BY <1>7, <2>1 DEF Work, Granting, Terminating, Revoking
<1>9. ReqType' /\ \A q \in Reqs : Work(q)'
  BY <1>3, <1>4, <1>6, <1>7, <1>8, OneMoves
<1>10. LoginsOwned' /\ SeenCovered' /\ SpentBarred' /\ SessionsOwned'
  BY <1>1, <1>3, <1>4, Kept
<1>11. TerminatedPending'
  <2>1. \A q \in Reqs : req[q].pc = "terminate" => req'[q] = req[q]
    BY <1>1, <1>5 DEF Idle
  <2> QED
    BY <1>1, <1>3, <2>1, PendingKept
<1>12. IdsApart'
  BY <1>1, <1>2, IdsFresh
<1>13. StorageTypes'
  BY <1>0, <1>1, <1>2, <1>3, <1>4, <1>9, TypesPersist DEF StorageTypes
<1> QED
  BY <1>9, <1>10, <1>11, <1>12, <1>13 DEF IInv

(* The session a request on its way to tokens works for is of a client.    *)
LEMMA GrantingOwned ==
  ASSUME IInv, RTP!IInv, NEW r \in Reqs,
         req[r].pc \in {"touch", "store", "issue", "rotate", "finish"}
  PROVE  /\ OwnedBy(req[r].sid, req[r].sub, req[r].client)
         /\ req[r].sid \in 1..drawn /\ req[r].sub \in Subs /\ req[r].client \in Clients
<1>1. OwnedBy(req[r].sid, req[r].sub, req[r].client)
  BY DEF IInv, Work, Granting
<1> QED
  BY <1>1 DEF OwnedBy, IInv, StorageTypes, OwnerType, Keyed, Who

LEMMA StoreAccessKeeps ==
  ASSUME IInv, RTP!IInv, NEW r \in Reqs, StoreAccess(r) PROVE IInv'
<1> DEFINE j == drawn + 1
           entry == [sub |-> req[r].sub, client |-> req[r].client, exp |-> now + AccessTTL]
<1>0. /\ ManagerTypes /\ StorageTypes /\ req[r].pc = "store" /\ Work(r)
      /\ req \in [Reqs -> Working \cup {Idle}]
  BY ManagerTyped DEF IInv, StoreAccess, StorageTypes, ReqType
<1>1. /\ drawn' = j /\ UNCHANGED <<now, ttl, issued, revoked, history>>
      /\ accessTokens' = Put(Without(accessTokens,
           {x \in DOMAIN accessTokens : accessTokens[x].exp < now}), j, entry)
      /\ IF req[r].kind = "access" THEN Finish(r) ELSE Goto(r, "issue")
      /\ UNCHANGED <<owner, sessions, logins, held, seen, spent, terminated>>
  BY DEF StoreAccess, RT!Draw, ghosts
<1>2. /\ OwnedBy(req[r].sid, req[r].sub, req[r].client)
      /\ req[r].sub \in Subs /\ req[r].client \in Clients
  BY <1>0, GrantingOwned
<1>3. /\ DOMAIN accessTokens' \subseteq DOMAIN accessTokens \cup {j}
      /\ \A x \in DOMAIN accessTokens' :
           x = j \/ (x \in DOMAIN accessTokens /\ accessTokens'[x] = accessTokens[x])
      /\ AccessType'
  <2>1. entry \in [sub : Subs, client : Clients, exp : Nat]
    BY <1>0, <1>2, AccessTTLAssumption DEF ManagerTypes
  <2> QED
    BY <1>0, <1>1, <2>1 DEF Put, Without, StorageTypes, AccessType, Keyed, ManagerTypes
<1>4. ManagerTypes' /\ Evolves
  <2>1. ManagerTypes'
    BY <1>0, <1>1 DEF ManagerTypes
  <2> QED
    BY <1>0, <1>1, <1>3, <2>1, SessionsAlone DEF Evolves, ManagerTypes
<1>5. SessionsType' /\ Working \subseteq Working'
  BY <1>0, <1>1, <1>4, TypesPersist
<1>6. req' = [req EXCEPT ![r] = req'[r]] /\ req'[r] \in Working' \cup {Idle} /\ Work(r)'
  <2>1. CASE Finish(r)
    <3>1. req'[r] = Idle /\ req' = [req EXCEPT ![r] = req'[r]]
      BY <1>0, <2>1 DEF Finish
    <3> QED
      BY <3>1, IdleWorksNext
  <2>2. CASE req[r].kind # "access" /\ Goto(r, "issue")
    <3>1. /\ req' = [req EXCEPT ![r] = req'[r]] /\ req'[r] \in Working
          /\ req'[r].pc = "issue" /\ req'[r].kind = req[r].kind /\ req'[r].sub = req[r].sub
          /\ req'[r].client = req[r].client /\ req'[r].sid = req[r].sid
          /\ req'[r].jti = req[r].jti /\ req'[r].lastSeen = req[r].lastSeen
      BY <1>0, <2>2, GotoFields
    <3>2. /\ req[r].kind \in {"code", "refresh", "grant"}
          /\ req[r].kind = "refresh" => IsToken(req[r].jti, req[r].sid)
          /\ req[r].kind # "refresh" => Covered(req[r].sid, req[r].lastSeen)
      BY <1>0, <2>2 DEF Work, Granting
    <3>3. OwnedBy(req[r].sid, req[r].sub, req[r].client)'
      BY <1>1, <1>2, <3>1 DEF OwnedBy
    <3>4. req[r].kind = "refresh" => IsToken(req[r].jti, req[r].sid)'
      BY <1>1, <3>1, <3>2 DEF IsToken
    <3>5. req[r].kind # "refresh" => Covered(req[r].sid, req[r].lastSeen)'
      BY <1>1, <3>1, <3>2 DEF Covered
    <3>6. Work(r)'
      BY <3>1, <3>2, <3>3, <3>4, <3>5 DEF Work, Granting, Terminating, Revoking
    <3> QED
      BY <1>5, <3>1, <3>6
  <2> QED
    BY <1>1, <2>1, <2>2
<1>7. ReqType' /\ \A q \in Reqs : Work(q)'
  BY <1>4, <1>5, <1>6, OneMoves
<1>8. LoginsOwned' /\ SeenCovered' /\ SpentBarred' /\ SessionsOwned'
  BY <1>1, <1>4, <1>5, Kept
<1>9. TerminatedPending'
  <2>1. \A q \in Reqs : req[q].pc = "terminate" => req'[q] = req[q]
    BY <1>0, <1>6
  <2> QED
    BY <1>1, <1>4, <2>1, PendingKept
<1>10. IdsApart'
  BY <1>1, <1>3, IdsFresh
<1>11. StorageTypes'
  BY <1>0, <1>1, <1>3, <1>4, <1>5, <1>7, TypesPersist DEF StorageTypes
<1> QED
  BY <1>7, <1>8, <1>9, <1>10, <1>11 DEF IInv

-----------------------------------------------------------------------------
(* The steps that hand out a refresh token.                                *)
LEMMA DeliverFacts ==
  ASSUME IInv, RTP!IInv, ManagerTypes', now' = now, drawn <= drawn',
         NEW jti \in 1..drawn', NEW at \in 0..now, Deliver(jti, at)
  PROVE  /\ HeldType'
         /\ DOMAIN seen' = DOMAIN seen \cup {jti} /\ seen'[jti] = at
         /\ \A x \in DOMAIN seen : x = jti \/ seen'[x] = seen[x]
<1>0. HeldType /\ ManagerTypes
  BY ManagerTyped DEF IInv, StorageTypes
<1>1. /\ DOMAIN seen' = DOMAIN seen \cup {jti} /\ seen'[jti] = at
      /\ \A x \in DOMAIN seen : x = jti \/ seen'[x] = seen[x]
      /\ seen' \in [DOMAIN seen' -> 0..now]
  BY <1>0 DEF Deliver, Put, HeldType, Keyed
<1>2. held' \subseteq 1..drawn' /\ DOMAIN seen' \subseteq held'
  BY <1>0, <1>1 DEF Deliver, HeldType, ManagerTypes
<1> QED
  BY <1>1, <1>2 DEF HeldType, Keyed

(* What is handed out is covered when its session is.                      *)
LEMMA DeliverCovers ==
  ASSUME IInv, RTP!IInv, ManagerTypes', Evolves, SessionsType', now' = now,
         NEW jti \in 1..drawn', NEW at \in 0..now, Deliver(jti, at),
         \A t \in issued' : t.jti = jti => Covered(t.sid, at)'
  PROVE  SeenCovered'
<1>0. StorageTypes /\ ManagerTypes
  BY ManagerTyped DEF IInv
<1>1. /\ DOMAIN seen' = DOMAIN seen \cup {jti} /\ seen'[jti] = at
      /\ \A x \in DOMAIN seen : x = jti \/ seen'[x] = seen[x]
  <2>1. drawn <= drawn'
    BY <1>0 DEF Evolves, ManagerTypes
  <2> QED
    BY <2>1, DeliverFacts
<1> SUFFICES ASSUME NEW t \in issued', t.jti \in DOMAIN seen' PROVE Covered(t.sid, seen[t.jti])'
  BY DEF SeenCovered
<1>2. CASE t.jti = jti
  BY <1>1, <1>2 DEF Covered
<1>3. CASE t.jti # jti
  <2>1. t.jti \in DOMAIN seen /\ seen'[t.jti] = seen[t.jti]
    BY <1>1, <1>3
  <2>2. t.jti \in 1..drawn /\ seen[t.jti] \in Nat
    BY <1>0, <2>1 DEF StorageTypes, HeldType, Keyed, ManagerTypes
  <2>3. t \in issued
    BY <1>0, <2>2 DEF Evolves, ManagerTypes
  <2>4. Covered(t.sid, seen[t.jti])
    BY <2>1, <2>3 DEF IInv, SeenCovered
  <2>5. \A sid : \A m \in Nat : Covered(sid, m) => Covered(sid, m)'
    BY <1>0, CoverPersists DEF ManagerTypes
  <2> QED
    BY <2>1, <2>2, <2>4, <2>5 DEF Covered
<1> QED
  BY <1>2, <1>3

LEMMA IssueRefreshKeeps ==
  ASSUME IInv, RTP!IInv, NEW r \in Reqs, IssueRefresh(r) PROVE IInv'
<1> DEFINE j == drawn + 1
           token == [jti |-> j, sid |-> req[r].sid, iat |-> now, exp |-> now + ttl]
           pc == IF req[r].kind = "code" THEN "finish" ELSE "rotate"
<1>0. /\ ManagerTypes /\ StorageTypes /\ req[r].pc = "issue" /\ Work(r)
      /\ req \in [Reqs -> Working \cup {Idle}] /\ req[r] \in Working
      /\ req[r].lastSeen \in 0..now
  BY ManagerTyped, WorkingFields DEF IInv, IssueRefresh, StorageTypes, ReqType
<1>1. /\ drawn' = j /\ issued' = issued \cup {token}
      /\ UNCHANGED <<now, ttl, revoked, history>>
      /\ UNCHANGED <<owner, sessions, accessTokens, logins, spent, terminated>>
  BY DEF IssueRefresh, RT!Issue, store
<1>2. /\ OwnedBy(req[r].sid, req[r].sub, req[r].client) /\ req[r].sid \in 1..drawn
      /\ req[r].kind \in {"code", "refresh", "grant"}
      /\ req[r].kind = "refresh" => IsToken(req[r].jti, req[r].sid)
      /\ req[r].kind # "refresh" => Covered(req[r].sid, req[r].lastSeen)
  BY <1>0, GrantingOwned DEF Work, Granting
<1>3. ManagerTypes'
  BY <1>0, <1>1, <1>2 DEF ManagerTypes
<1>4. Evolves
  BY <1>0, <1>1, <1>3, SessionsAlone DEF Evolves, ManagerTypes
<1>5. SessionsType' /\ Working \subseteq Working'
  BY <1>0, <1>1, <1>4, TypesPersist
<1>6. IdsApart'
  <2>1. \A t, u \in issued' \ issued : t = u
    BY <1>1
  <2>2. \A t \in issued' \ issued : t.jti = drawn + 1 /\ t.sid \in DOMAIN owner
    BY <1>1, <1>2 DEF OwnedBy
  <2> QED
    BY <1>1, <2>1, <2>2, IdsFresh
<1>7. LoginsOwned' /\ SpentBarred' /\ SessionsOwned' /\ (seen' = seen => SeenCovered')
  BY <1>1, <1>3, <1>4, <1>5, Kept
<1>8. \A t \in issued' : t.jti = j => t.sid = req[r].sid
  <2>1. \A t \in issued : t.jti # j
    BY <1>0 DEF ManagerTypes
  <2> QED
    BY <1>1, <2>1
<1>9. /\ req' = [req EXCEPT ![r] = req'[r]] /\ req'[r] \in Working' \cup {Idle} /\ Work(r)'
      /\ HeldType' /\ SeenCovered'
  <2>1. CASE Finish(r) /\ req[r].kind = "grant" /\ Deliver(j, req[r].lastSeen)
    <3>1. req'[r] = Idle /\ req' = [req EXCEPT ![r] = req'[r]]
      BY <1>0, <2>1 DEF Finish
    <3>2. j \in 1..drawn' /\ drawn <= drawn'
      BY <1>0, <1>1 DEF ManagerTypes
    <3>3. HeldType'
      BY <1>0, <1>1, <1>3, <2>1, <3>2, DeliverFacts
    <3>4. Covered(req[r].sid, req[r].lastSeen)
      BY <1>2, <2>1
    <3>5. \A t \in issued' : t.jti = j => Covered(t.sid, req[r].lastSeen)
      BY <1>8, <3>4
    <3> DEFINE at == req[r].lastSeen
    <3>6. \A t \in issued' : t.jti = j =>
            \/ t.sid \in terminated'
            \/ t.sid \in DOMAIN sessions' /\ at <= sessions'[t.sid].lastSeen
            \/ at + ttl' < now'
      BY <1>1, <3>5 DEF Covered
    <3>7. SeenCovered'
      <4> HIDE DEF at
      <4>1. \A m \in {at} : \A t \in issued' : t.jti = j => Covered(t.sid, m)'
        BY <3>6 DEF Covered
      <4>2. at \in 0..now /\ Deliver(j, at)
        BY <1>0, <2>1 DEF at
      <4> QED
        BY <1>1, <1>3, <1>4, <1>5, <3>2, <4>1, <4>2, DeliverCovers
    <3> QED
      BY <3>1, <3>3, <3>7, IdleWorksNext
  <2>2. CASE /\ req[r].kind # "grant" /\ req' = [req EXCEPT ![r].new = j, ![r].pc = pc]
             /\ UNCHANGED <<held, seen>>
    <3>1. req'[r] = [req[r] EXCEPT !.new = j, !.pc = pc] /\ req' = [req EXCEPT ![r] = req'[r]]
      BY <1>0, <2>2
    <3>2. /\ req'[r].pc = pc /\ req'[r].kind = req[r].kind /\ req'[r].sub = req[r].sub
          /\ req'[r].client = req[r].client /\ req'[r].sid = req[r].sid
          /\ req'[r].jti = req[r].jti /\ req'[r].lastSeen = req[r].lastSeen
          /\ req'[r].new = j
      BY <1>0, <3>1 DEF Working
    <3>3. req'[r] \in Working'
      <4>1. req[r] \in Working' /\ j \in 0..drawn'
        BY <1>0, <1>1, <1>5 DEF ManagerTypes
      <4> QED
        BY <3>1, <4>1 DEF Working
    <3>4. OwnedBy(req[r].sid, req[r].sub, req[r].client)'
      BY <1>1, <1>2, <3>2 DEF OwnedBy
    <3>5. IsToken(req[r].new, req[r].sid)'
      <4>1. token \in issued' /\ token.jti = req'[r].new /\ token.sid = req'[r].sid
        BY <1>1, <3>2
      <4> QED
        BY <4>1 DEF IsToken
    <3>6. req[r].kind = "refresh" => IsToken(req[r].jti, req[r].sid)'
      BY <1>1, <1>2, <3>2 DEF IsToken
    <3>7. req[r].kind # "refresh" => Covered(req[r].sid, req[r].lastSeen)'
      BY <1>1, <1>2, <3>2 DEF Covered
    <3>8. Work(r)'
      BY <1>2, <2>2, <3>2, <3>4, <3>5, <3>6, <3>7 DEF Work, Granting, Terminating, Revoking
    <3>9. HeldType'
      BY <1>0, <1>4, <2>2, TypesPersist
    <3> QED
      BY <1>7, <2>2, <3>1, <3>3, <3>8, <3>9
  <2> QED
    BY <2>1, <2>2 DEF IssueRefresh
<1>10. ReqType' /\ \A q \in Reqs : Work(q)'
  BY <1>3, <1>4, <1>5, <1>9, OneMoves
<1>11. TerminatedPending'
  <2>1. \A q \in Reqs : req[q].pc = "terminate" => req'[q] = req[q]
    BY <1>0, <1>9
  <2> QED
    BY <1>1, <1>4, <2>1, PendingKept
<1>12. StorageTypes'
  BY <1>0, <1>1, <1>4, <1>5, <1>9, <1>10, TypesPersist DEF StorageTypes
<1> QED
  BY <1>6, <1>7, <1>9, <1>10, <1>11, <1>12 DEF IInv

LEMMA FinishCodeKeeps ==
  ASSUME IInv, RTP!IInv, NEW r \in Reqs, FinishCode(r) PROVE IInv'
<1> DEFINE at == req[r].lastSeen
<1>0. /\ ManagerTypes /\ StorageTypes /\ req[r].pc = "finish" /\ Work(r)
      /\ req \in [Reqs -> Working \cup {Idle}] /\ at \in 0..now /\ req[r].new \in 0..drawn
  BY ManagerTyped, WorkingFields DEF IInv, FinishCode, StorageTypes, ReqType
<1>1. /\ UNCHANGED <<manager, owner, sessions, accessTokens, spent, terminated>>
      /\ UNCHANGED <<now, drawn, ttl, issued, history>>
      /\ logins' \subseteq logins /\ Finish(r) /\ Deliver(req[r].new, at)
  BY DEF FinishCode, manager
<1>2. IsToken(req[r].new, req[r].sid) /\ Covered(req[r].sid, at) /\ req[r].new \in 1..drawn'
  BY <1>0, <1>1 DEF Work, Granting, IsToken, ManagerTypes
<1>3. ManagerTypes'
  BY <1>0, <1>1 DEF ManagerTypes
<1>4. Evolves
  BY <1>0, <1>1, <1>3, SessionsAlone DEF Evolves, ManagerTypes
<1>5. SessionsType' /\ Working \subseteq Working'
  BY <1>0, <1>1, <1>4, TypesPersist
<1>6. req'[r] = Idle /\ req' = [req EXCEPT ![r] = req'[r]]
  BY <1>0, <1>1 DEF Finish
<1>7. ReqType' /\ \A q \in Reqs : Work(q)'
  BY <1>3, <1>4, <1>5, <1>6, IdleWorksNext, OneMoves
<1>8. LoginsOwned' /\ SpentBarred' /\ SessionsOwned'
  BY <1>1, <1>3, <1>4, <1>5, Kept
<1>9. HeldType'
  <2>1. now' = now /\ drawn <= drawn'
    BY <1>0, <1>1 DEF ManagerTypes
  <2> QED
    BY <1>0, <1>1, <1>2, <1>3, <2>1, DeliverFacts
<1>10. SeenCovered'
  <2> DEFINE new == req[r].new
  <2>1. \A t \in issued' : t.jti = new => t.sid = req[r].sid
    BY <1>1, <1>2 DEF IsToken, IInv, IdsApart
  <2>2. \A t \in issued' : t.jti = new =>
          \/ t.sid \in terminated'
          \/ t.sid \in DOMAIN sessions' /\ at <= sessions'[t.sid].lastSeen
          \/ at + ttl' < now'
    BY <1>1, <1>2, <2>1 DEF Covered
  <2>3. at \in 0..now /\ new \in 1..drawn' /\ Deliver(new, at)
    BY <1>0, <1>1, <1>2
  <2> HIDE DEF at, new
  <2>4. \A m \in {at} : \A t \in issued' : t.jti = new => Covered(t.sid, m)'
    BY <2>2 DEF Covered
  <2> QED
    BY <1>1, <1>3, <1>4, <1>5, <2>3, <2>4, DeliverCovers
<1>11. TerminatedPending'
  <2>1. \A q \in Reqs : req[q].pc = "terminate" => req'[q] = req[q]
    BY <1>0, <1>6
  <2> QED
    BY <1>1, <1>4, <2>1, PendingKept
<1>12. IdsApart'
  BY <1>1, IdsKept DEF IInv
<1>13. StorageTypes'
  BY <1>0, <1>1, <1>4, <1>5, <1>7, <1>9, TypesPersist DEF StorageTypes
<1> QED
  BY <1>7, <1>8, <1>10, <1>11, <1>12, <1>13 DEF IInv

(* touchSession leaves the session it was called for seen now.             *)
LEMMA TouchRegisters ==
  ASSUME IInv, RTP!IInv, NEW r \in Reqs, Touch(r)
  PROVE  /\ ManagerTypes' /\ Evolves /\ SessionsType' /\ SessionsOwned'
         /\ req[r].sid \in DOMAIN sessions' /\ sessions'[req[r].sid].lastSeen = now
<1>0. ManagerTypes /\ StorageTypes
  BY ManagerTyped DEF IInv
<1>1. /\ UNCHANGED <<now, drawn, ttl, issued, history>>
      /\ UNCHANGED <<owner, accessTokens, logins, terminated>>
      /\ req[r].pc = "touch" /\ sessions' = Registering(req[r].sid, req[r])
  BY DEF Touch, manager
<1>2. /\ OwnedBy(req[r].sid, req[r].sub, req[r].client) /\ req[r].sid \in 1..drawn'
      /\ req[r].sub \in Subs /\ req[r].client \in Clients
  BY <1>1, GrantingOwned
<1>3. ManagerTypes'
  BY <1>0, <1>1 DEF ManagerTypes
<1> DEFINE sid == req[r].sid
           who == req[r]
<1>4. /\ SessionsType'
      /\ sid \in DOMAIN sessions' /\ sessions'[sid].lastSeen = now
      /\ sessions'[sid].sub = who.sub /\ sessions'[sid].client = who.client
      /\ \A x \in DOMAIN sessions' :
           x = sid \/ (x \in DOMAIN sessions /\ sessions'[x] = sessions[x])
      /\ \A x \in DOMAIN sessions :
           \/ x \in DOMAIN sessions' /\ sessions[x].lastSeen <= sessions'[x].lastSeen
           \/ sessions[x].lastSeen + ttl < now
  BY <1>0, <1>1, <1>2, RegisteringFacts DEF StorageTypes, ManagerTypes
<1>5. Evolves
  BY <1>0, <1>1, <1>4 DEF Evolves, ManagerTypes
<1>6. SessionsOwned'
  BY <1>1, <1>2, <1>4 DEF IInv, SessionsOwned, OwnedBy
<1> QED
  BY <1>3, <1>4, <1>5, <1>6

LEMMA TouchKeeps ==
  ASSUME IInv, RTP!IInv, NEW r \in Reqs, Touch(r) PROVE IInv'
<1>0. /\ ManagerTypes /\ StorageTypes /\ req[r].pc = "touch" /\ Work(r)
      /\ req \in [Reqs -> Working \cup {Idle}] /\ req[r] \in Working
      /\ req[r].new \in 0..drawn
  BY ManagerTyped, WorkingFields DEF IInv, Touch, StorageTypes, ReqType
<1>1. /\ UNCHANGED <<now, drawn, ttl, issued, history>>
      /\ UNCHANGED <<owner, accessTokens, logins, terminated>>
  BY DEF Touch, manager
<1>2. /\ ManagerTypes' /\ Evolves /\ SessionsType' /\ SessionsOwned'
      /\ req[r].sid \in DOMAIN sessions' /\ sessions'[req[r].sid].lastSeen = now
  BY TouchRegisters
<1>3. Working \subseteq Working'
  BY <1>0, <1>2, TypesPersist
<1>4. /\ LoginsOwned' /\ (seen' = seen => SeenCovered') /\ (spent' = spent => SpentBarred')
      /\ (held' = held /\ seen' = seen => HeldType') /\ (spent' = spent => SpentType')
  BY <1>0, <1>1, <1>2, Kept, TypesPersist
<1>5. /\ req' = [req EXCEPT ![r] = req'[r]] /\ req'[r] \in Working' \cup {Idle} /\ Work(r)'
      /\ HeldType' /\ SeenCovered' /\ SpentType' /\ SpentBarred'
  <2>1. CASE req[r].kind = "refresh"
    <3>1. /\ Finish(r) /\ Deliver(req[r].new, now) /\ spent' = spent \cup {req[r].jti}
      BY <2>1 DEF Touch
    <3>2. req'[r] = Idle /\ req' = [req EXCEPT ![r] = req'[r]]
      BY <1>0, <3>1 DEF Finish
    <3>3. IsToken(req[r].new, req[r].sid) /\ IsToken(req[r].jti, req[r].sid) /\ Retired(req[r].jti)
      BY <1>0, <2>1 DEF Work, Granting
    <3>4. req[r].new \in 1..drawn' /\ req[r].jti \in 1..drawn'
      BY <1>0, <1>1, <3>3 DEF IsToken, ManagerTypes
    <3>5. HeldType'
      <4>1. now' = now /\ drawn <= drawn' /\ now \in 0..now
        BY <1>0, <1>1 DEF ManagerTypes
      <4> QED
        BY <1>2, <3>1, <3>4, <4>1, DeliverFacts
    <3>6. SeenCovered'
      <4> DEFINE new == req[r].new
                 at == now
      <4>1. \A t \in issued' : t.jti = new => t.sid = req[r].sid
        BY <1>1, <3>3 DEF IsToken, IInv, IdsApart
      <4>2. \A t \in issued' : t.jti = new =>
              t.sid \in DOMAIN sessions' /\ at <= sessions'[t.sid].lastSeen
        BY <1>0, <1>2, <4>1 DEF ManagerTypes
      <4>3. at \in 0..now /\ new \in 1..drawn' /\ Deliver(new, at)
        BY <1>0, <3>1, <3>4 DEF ManagerTypes
      <4> HIDE DEF at, new
      <4>4. \A m \in {at} : \A t \in issued' : t.jti = new => Covered(t.sid, m)'
        BY <4>2 DEF Covered
      <4> QED
        BY <1>1, <1>2, <4>3, <4>4, DeliverCovers
    <3>7. SpentType' /\ SpentBarred'
      BY <1>0, <1>1, <3>1, <3>3, <3>4
         DEF StorageTypes, SpentType, IInv, SpentBarred, Retired
    <3> QED
      BY <3>2, <3>5, <3>6, <3>7, IdleWorksNext
  <2>2. CASE req[r].kind # "refresh"
    <3>1. req' = [req EXCEPT ![r].pc = "store", ![r].lastSeen = now] /\ UNCHANGED <<held, seen, spent>>
      BY <2>2 DEF Touch
    <3>2. /\ req' = [req EXCEPT ![r] = req'[r]]
          /\ req'[r] = [req[r] EXCEPT !.pc = "store", !.lastSeen = now]
      BY <1>0, <3>1
    <3>3. req'[r] \in Working
      <4>1. now \in 0..now
        BY <1>0 DEF ManagerTypes
      <4> QED
        BY <1>0, <3>2, <4>1 DEF Working
    <3>4. /\ req'[r].pc = "store" /\ req'[r].kind = req[r].kind /\ req'[r].sub = req[r].sub
          /\ req'[r].client = req[r].client /\ req'[r].sid = req[r].sid
          /\ req'[r].lastSeen = now
      BY <1>0, <3>2 DEF Working
    <3>5. /\ OwnedBy(req[r].sid, req[r].sub, req[r].client)
          /\ req[r].kind \in {"code", "refresh", "grant", "access"}
      BY <1>0 DEF Work, Granting
    <3>6. OwnedBy(req[r].sid, req[r].sub, req[r].client)'
      BY <1>1, <3>4, <3>5 DEF OwnedBy
    <3>7. Covered(req[r].sid, req[r].lastSeen)'
      <4>1. now <= now
        BY <1>0 DEF ManagerTypes
      <4>2. req[r].sid \in DOMAIN sessions' /\ now <= sessions'[req[r].sid].lastSeen
        BY <1>2, <4>1
      <4>3. req'[r].sid \in DOMAIN sessions' /\ req'[r].lastSeen <= sessions'[req'[r].sid].lastSeen
        BY <3>4, <4>2
      <4> QED
        BY <4>3 DEF Covered
    <3>8. Work(r)'
      BY <2>2, <3>4, <3>5, <3>6, <3>7 DEF Work, Granting, Terminating, Revoking
    <3> QED
      BY <1>3, <1>4, <3>1, <3>2, <3>3, <3>8
  <2> QED
    BY <2>1, <2>2
<1>6. ReqType' /\ \A q \in Reqs : Work(q)'
  BY <1>2, <1>5, OneMoves
<1>7. TerminatedPending'
  <2>1. \A q \in Reqs : req[q].pc = "terminate" => req'[q] = req[q]
    BY <1>0, <1>5
  <2> QED
    BY <1>1, <1>2, <2>1, PendingKept
<1>8. IdsApart'
  BY <1>1, IdsKept DEF IInv
<1>9. StorageTypes'
  BY <1>0, <1>1, <1>2, <1>5, <1>6, TypesPersist DEF StorageTypes
<1> QED
  BY <1>2, <1>4, <1>5, <1>6, <1>7, <1>8, <1>9 DEF IInv

-----------------------------------------------------------------------------
(* Logout, revocation of an access token, the clock and a restart.         *)
LEMMA RevokeAccessKeeps ==
  ASSUME IInv, RTP!IInv, NEW r \in Reqs, RevokeAccess(r) PROVE IInv'
<1>0. /\ ManagerTypes /\ StorageTypes /\ req[r].pc = "revoke"
      /\ req \in [Reqs -> Working \cup {Idle}]
  BY ManagerTyped DEF IInv, RevokeAccess, StorageTypes, ReqType
<1>1. /\ UNCHANGED <<now, drawn, ttl, issued, history>>
      /\ UNCHANGED <<owner, sessions, logins, held, seen, spent, terminated>>
      /\ Finish(r)
  BY DEF RevokeAccess, manager, ghosts
<1>2. /\ DOMAIN accessTokens' \subseteq DOMAIN accessTokens
      /\ \A j \in DOMAIN accessTokens' : accessTokens'[j] = accessTokens[j]
      /\ AccessType'
  BY <1>0, <1>1 DEF RevokeAccess, Without, StorageTypes, AccessType, Keyed
<1>3. ManagerTypes'
  BY <1>0, <1>1 DEF ManagerTypes
<1>4. Evolves
  BY <1>0, <1>1, <1>2, <1>3, SessionsAlone DEF Evolves, ManagerTypes
<1>5. SessionsType' /\ Working \subseteq Working'
  BY <1>0, <1>1, <1>4, TypesPersist
<1>6. req'[r] = Idle /\ req' = [req EXCEPT ![r] = req'[r]]
  BY <1>0, <1>1 DEF Finish
<1>7. ReqType' /\ \A q \in Reqs : Work(q)'
  BY <1>3, <1>4, <1>5, <1>6, IdleWorksNext, OneMoves
<1>8. LoginsOwned' /\ SeenCovered' /\ SpentBarred' /\ SessionsOwned'
  BY <1>1, <1>3, <1>4, <1>5, Kept
<1>9. TerminatedPending'
  <2>1. \A q \in Reqs : req[q].pc = "terminate" => req'[q] = req[q]
    BY <1>0, <1>6
  <2> QED
    BY <1>1, <1>4, <2>1, PendingKept
<1>10. IdsApart'
  BY <1>1, <1>2, IdsKept DEF IInv
<1>11. StorageTypes'
  BY <1>0, <1>1, <1>2, <1>4, <1>5, <1>7, TypesPersist DEF StorageTypes
<1> QED
  BY <1>7, <1>8, <1>9, <1>10, <1>11 DEF IInv

LEMMA LogoutKeeps ==
  ASSUME IInv, RTP!IInv, NEW r \in Reqs, NEW u \in Subs, NEW c \in Clients \cup {AnyClient},
         Logout(r, u, c)
  PROVE  IInv'
<1> DEFINE gone == {sid \in DOMAIN sessions :
                      sessions[sid].sub = u /\ Matches(c, sessions[sid].client)}
           started == [Begin("logout", "terminate", [sub |-> u, client |-> c], 0, 0, 0)
                         EXCEPT !.todo = gone]
<1>0. /\ ManagerTypes /\ StorageTypes /\ req[r] = Idle
      /\ req \in [Reqs -> Working \cup {Idle}]
  BY ManagerTyped DEF IInv, Logout, StorageTypes, ReqType
<1>1. /\ UNCHANGED <<now, drawn, ttl, issued, history>>
      /\ UNCHANGED <<owner, logins, held, seen, spent>>
      /\ sessions' = Without(sessions, gone) /\ terminated' = terminated \cup gone
      /\ req' = [req EXCEPT ![r] = started]
  BY DEF Logout, manager
<1>2. /\ DOMAIN accessTokens' \subseteq DOMAIN accessTokens
      /\ \A j \in DOMAIN accessTokens' : accessTokens'[j] = accessTokens[j]
      /\ AccessType'
  BY <1>0, <1>1 DEF Logout, Without, StorageTypes, AccessType, Keyed
<1>3. /\ DOMAIN sessions' = DOMAIN sessions \ gone
      /\ \A sid \in DOMAIN sessions' : sessions'[sid] = sessions[sid]
      /\ SessionsType'
  BY <1>0, <1>1 DEF Without, StorageTypes, SessionsType, Keyed
<1>4. ManagerTypes'
  BY <1>0, <1>1 DEF ManagerTypes
<1>5. gone \in SUBSET (1..drawn)
  BY <1>0 DEF StorageTypes, SessionsType, Keyed
<1>6. Evolves
  <2>1. \A sid \in DOMAIN sessions : sessions[sid].lastSeen <= sessions[sid].lastSeen
    BY <1>0 DEF StorageTypes, SessionsType, Keyed, ManagerTypes
  <2>2. \A sid \in DOMAIN sessions :
          \/ sid \in terminated'
          \/ sid \in DOMAIN sessions' /\ sessions[sid].lastSeen <= sessions'[sid].lastSeen
    BY <1>1, <1>3, <2>1
  <2> HIDE DEF gone, started
  <2> QED
    BY <1>0, <1>1, <1>2, <1>4, <2>2 DEF Evolves, ManagerTypes
<1>7. Working \subseteq Working'
  BY <1>0, <1>6, TypesPersist
<1>8. req' = [req EXCEPT ![r] = req'[r]] /\ req'[r] = started
  BY <1>0, <1>1
<1>9. /\ started \in Working /\ started.pc = "terminate" /\ started.todo = gone
      /\ started.sub = u /\ started.client = c
  <2> HIDE DEF gone
  <2> QED
    BY <1>0, <1>5 DEF Begin, Working, ManagerTypes
<1>10. \A sid \in gone : /\ sid \in DOMAIN owner' /\ owner'[sid].sub = u
                         /\ c \in {AnyClient, owner'[sid].client}
  BY <1>1 DEF IInv, SessionsOwned, OwnedBy, Matches
<1>11. Work(r)'
  <2> HIDE DEF gone, started
  <2> QED
    BY <1>8, <1>9, <1>10 DEF Work, Granting, Terminating, Revoking
<1>12. ReqType' /\ \A q \in Reqs : Work(q)'
  BY <1>3, <1>4, <1>6, <1>7, <1>8, <1>9, <1>11, OneMoves
<1>13. LoginsOwned' /\ SeenCovered' /\ SpentBarred'
  BY <1>1, <1>3, <1>4, <1>6, Kept
<1>14. SessionsOwned'
  BY <1>1, <1>3 DEF IInv, SessionsOwned, OwnedBy
<1>15. TerminatedPending'
  <2>1. \A q \in Reqs : req[q].pc = "terminate" => req'[q] = req[q]
    BY <1>0, <1>8 DEF Idle
  <2>2. ASSUME NEW sid \in terminated
        PROVE  \/ sid \in DOMAIN history'
               \/ \E q \in Reqs : req'[q].pc = "terminate" /\ sid \in req'[q].todo
    BY <1>1, <2>1 DEF IInv, TerminatedPending
  <2>3. \A sid \in gone : req'[r].pc = "terminate" /\ sid \in req'[r].todo
    BY <1>8, <1>9
  <2> HIDE DEF gone, started
  <2> QED
    BY <1>1, <2>2, <2>3 DEF TerminatedPending
<1>16. IdsApart'
  BY <1>1, <1>2, IdsKept DEF IInv
<1>17. TerminatedType'
  BY <1>0, <1>1, <1>5 DEF StorageTypes, TerminatedType
<1>18. StorageTypes'
  BY <1>0, <1>1, <1>2, <1>3, <1>6, <1>12, <1>17, TypesPersist DEF StorageTypes
<1> QED
  BY <1>12, <1>13, <1>14, <1>15, <1>16, <1>18 DEF IInv

LEMMA TickKeeps ==
  ASSUME IInv, RTP!IInv, Tick PROVE IInv'
<1>0. ManagerTypes /\ StorageTypes
  BY ManagerTyped DEF IInv
<1>1. /\ now' = now + 1 /\ UNCHANGED <<drawn, ttl, issued, history>>
      /\ UNCHANGED <<owner, sessions, accessTokens, logins, held, req, seen, spent, terminated>>
  BY DEF Tick, RT!Tick, store, ghosts
<1>2. ManagerTypes'
  BY <1>0, <1>1 DEF ManagerTypes
<1>3. Evolves
  BY <1>0, <1>1, <1>2, SessionsAlone DEF Evolves, ManagerTypes
<1>4. SessionsType'
  BY <1>0, <1>1, <1>3, TypesPersist
<1>5. ReqType' /\ \A q \in Reqs : Work(q)'
  BY <1>1, <1>2, <1>3, <1>4, NobodyMoves
<1>6. LoginsOwned' /\ SeenCovered' /\ SpentBarred' /\ SessionsOwned'
  BY <1>1, <1>2, <1>3, <1>4, Kept
<1>7. TerminatedPending'
  BY <1>1, <1>3, PendingKept
<1>8. IdsApart'
  BY <1>1, IdsKept DEF IInv
<1>9. StorageTypes'
  BY <1>0, <1>1, <1>3, <1>4, <1>5, TypesPersist DEF StorageTypes
<1> QED
  BY <1>5, <1>6, <1>7, <1>8, <1>9 DEF IInv

(* A restart leaves nothing to be wrong about but who owns which session.  *)
LEMMA RestartKeeps ==
  ASSUME IInv, RTP!IInv, Restart PROVE IInv'
<1>0. /\ StorageTypes /\ IdsApart
      /\ UNCHANGED <<now, drawn, issued, owner, held>>
      /\ sessions' = RT!Empty /\ accessTokens' = RT!Empty /\ logins' = {} /\ seen' = RT!Empty
      /\ spent' = {} /\ terminated' = {} /\ req' = [r \in Reqs |-> Idle]
  BY DEF IInv, Restart, RT!Restart
<1>1. DOMAIN RT!Empty = {} /\ RT!Empty \in [DOMAIN RT!Empty -> {}]
  BY DEF RT!Empty
<1>2. StorageTypes'
  <2>1. OwnerType' /\ HeldType'
    BY <1>0, <1>1 DEF StorageTypes, OwnerType, HeldType, Keyed
  <2>2. SessionsType' /\ AccessType'
    BY <1>0, <1>1 DEF SessionsType, AccessType, Keyed
  <2>3. LoginsType' /\ SpentType' /\ TerminatedType'
    BY <1>0 DEF LoginsType, SpentType, TerminatedType
  <2>4. ReqType'
    BY <1>0 DEF ReqType
  <2> QED
    BY <2>1, <2>2, <2>3, <2>4 DEF StorageTypes
<1>3. IdsApart'
  BY <1>0, <1>1 DEF IdsApart
<1>4. SessionsOwned' /\ LoginsOwned' /\ SeenCovered' /\ SpentBarred' /\ TerminatedPending'
  BY <1>0, <1>1 DEF SessionsOwned, LoginsOwned, SeenCovered, SpentBarred, TerminatedPending
<1>5. \A r \in Reqs : Work(r)'
  BY <1>0, IdleWorksNext
<1> QED
  BY <1>2, <1>3, <1>4, <1>5 DEF IInv

-----------------------------------------------------------------------------
LEMMA StepKeeps ==
  ASSUME IInv, RTP!IInv, NEW r \in Reqs, Step(r) PROVE IInv'
BY TouchKeeps, StoreAccessKeeps, IssueRefreshKeeps, RotateKeeps, FinishCodeKeeps,
   LogoutRevokeKeeps, LogoutEndKeeps, RevokeAccessKeeps, RevokeRawKeeps, RevokeOtherKeeps,
   RevokeCheckKeeps, RevokeBarKeeps, Zenon DEF Step

LEMMA StutterKeeps == ASSUME IInv, UNCHANGED vars PROVE IInv'
<1>1. UNCHANGED <<now, drawn, ttl, issued, revoked, history, owner, sessions, accessTokens,
                  logins, held, req, seen, spent, terminated>>
  BY DEF vars, manager, store, ghosts
<1>2. StorageTypes' /\ IdsApart'
  BY <1>1 DEF IInv, StorageTypes, OwnerType, SessionsType, AccessType, LoginsType, ReqType,
              HeldType, SpentType, TerminatedType, Keyed, Working, IdsApart
<1>3. SessionsOwned' /\ LoginsOwned' /\ SeenCovered' /\ SpentBarred' /\ TerminatedPending'
  BY <1>1 DEF IInv, SessionsOwned, LoginsOwned, SeenCovered, SpentBarred, TerminatedPending,
              OwnedBy, Covered
<1>4. \A r \in Reqs : Work(r)'
  BY <1>1 DEF IInv, Work, Granting, Terminating, Revoking, OwnedBy, Covered, IsToken, Retired
<1> QED
  BY <1>2, <1>3, <1>4 DEF IInv

LEMMA InvInit == Init => IInv
<1> SUFFICES ASSUME Init PROVE IInv
  OBVIOUS
<1>1. DOMAIN RT!Empty = {} /\ RT!Empty \in [DOMAIN RT!Empty -> {}]
  BY DEF RT!Empty
<1>2. issued = {}
  BY DEF Init, RT!Init
<1>3. StorageTypes
  BY <1>1 DEF Init, StorageTypes, OwnerType, SessionsType, AccessType, LoginsType, ReqType,
              HeldType, SpentType, TerminatedType, Keyed
<1>4. /\ IdsApart /\ SessionsOwned /\ LoginsOwned /\ SeenCovered /\ SpentBarred
      /\ TerminatedPending
  BY <1>1, <1>2 DEF Init, IdsApart, SessionsOwned, LoginsOwned, SeenCovered, SpentBarred,
                    TerminatedPending
<1>5. \A r \in Reqs : Work(r)
  BY DEF Init, Work, Granting, Terminating, Revoking, Idle
<1> QED
  BY <1>3, <1>4, <1>5 DEF IInv

LEMMA InvNext == IInv /\ RTP!IInv /\ [Next]_vars => IInv'
<1> SUFFICES ASSUME IInv, RTP!IInv, [Next]_vars PROVE IInv'
  OBVIOUS
<1>1. ASSUME NEW who \in Who, Login(who) PROVE IInv'
  BY <1>1, LoginKeeps
<1>2. ASSUME NEW l \in logins, EvictLogin(l) PROVE IInv'
  BY <1>2, EvictLoginKeeps
<1>3. ASSUME NEW r \in Reqs, NEW who \in Who, NEW kind \in {"grant", "access"},
             GrantBegin(r, who, kind)
      PROVE  IInv'
  BY <1>3, GrantBeginKeeps
<1>4. ASSUME NEW r \in Reqs, NEW l \in logins, RedeemBegin(r, l) PROVE IInv'
  BY <1>4, RedeemBeginKeeps
<1>5. ASSUME NEW r \in Reqs, NEW t \in issued, RefreshBegin(r, t) PROVE IInv'
  BY <1>5, RefreshBeginKeeps
<1>6. ASSUME NEW r \in Reqs, NEW u \in Subs, NEW c \in Clients \cup {AnyClient}, Logout(r, u, c)
      PROVE  IInv'
  BY <1>6, LogoutKeeps
<1>7. ASSUME NEW r \in Reqs, NEW t \in issued, NEW c \in Clients,
             RevokeRefreshBegin(r, t, c) \/ RevokeJtiBegin(r, t, c) \/ RevokeRawBegin(r, t, c)
      PROVE  IInv'
  BY <1>7, RevokeRefreshBeginKeeps, RevokeJtiBeginKeeps, RevokeRawBeginKeeps
<1>8. ASSUME NEW r \in Reqs, NEW j \in DOMAIN accessTokens, NEW c \in Clients,
             RevokeAccessBegin(r, j, c)
      PROVE  IInv'
  BY <1>8, RevokeAccessBeginKeeps
<1>9. ASSUME NEW r \in Reqs, Step(r) PROVE IInv'
  BY <1>9, StepKeeps
<1>10. QED
  BY <1>1, <1>2, <1>3, <1>4, <1>5, <1>6, <1>7, <1>8, <1>9, TickKeeps, RestartKeeps,
     StutterKeeps, Zenon DEF Next

LEMMA Inductive == Spec => [](IInv /\ RTP!IInv)
<1>1. Init => IInv
  BY InvInit
<1>2. IInv /\ RTP!IInv /\ [Next]_vars => IInv'
  BY InvNext
<1> QED
  BY <1>1, <1>2, ManagerInvariant, PTL DEF Spec

-----------------------------------------------------------------------------
(* Every map of Storage, every request in progress and every token keep    *)
(* their types.                                                            *)
THEOREM TypeCorrect == Spec => []TypeOK
<1>1. IInv /\ RTP!IInv => TypeOK
  BY ManagerFacts
     DEF TypeOK, IInv, StorageTypes, OwnerType, SessionsType, AccessType, LoginsType, ReqType,
         HeldType, SpentType, TerminatedType
<1> QED
  BY <1>1, Inductive, PTL

(* A refresh token a client can use has its session on the map for one TTL *)
(* after the session was last seen as the token was handed out, registered *)
(* for the right user and client: pruneSessionsLocked never takes it away  *)
(* from under a login whose code is still out, nor from under a request    *)
(* between touchSession and its answer (storage.go:144-168,350-367).       *)
THEOREM LogoutFindsSessions == Spec => []SessionCoversToken
<1>1. IInv /\ RTP!IInv => SessionCoversToken
  <2> SUFFICES ASSUME IInv, RTP!IInv, NEW t \in issued, t.jti \in DOMAIN seen,
                      now <= seen[t.jti] + ttl, t.sid \notin terminated
               PROVE  /\ t.sid \in DOMAIN sessions
                      /\ sessions[t.sid].sub = owner[t.sid].sub
                      /\ sessions[t.sid].client = owner[t.sid].client
    BY DEF SessionCoversToken
  <2>1. seen[t.jti] \in Nat /\ now \in Nat /\ ttl \in Nat
    BY ManagerTyped DEF IInv, StorageTypes, HeldType, Keyed, ManagerTypes
  <2>2. t.sid \in DOMAIN sessions
    BY <2>1 DEF IInv, SeenCovered, Covered
  <2> QED
    BY <2>2 DEF IInv, SessionsOwned, OwnedBy
<1> QED
  BY <1>1, Inductive, PTL

(* However rotations of one token race, the answer of each comes after the *)
(* old jti is on the denylist, and pruning keeps it there for the rest of  *)
(* the token's life (storage.go:339-346, tokens.go:140-148).               *)
THEOREM RotatedTokensStayRetired == Spec => []RotationRetires
<1>1. IInv /\ RTP!IInv /\ RT!RevokedUntilExpiry => RotationRetires
  <2> SUFFICES ASSUME IInv, RTP!IInv, RT!RevokedUntilExpiry, NEW t \in issued,
                      t.jti \in spent, now <= t.exp, t.exp - t.iat <= ttl
               PROVE  ~RT!Accepts(t)
    BY DEF RotationRetires
  <2>1. t.jti \in DOMAIN history /\ t.iat <= history[t.jti]
    BY DEF IInv, SpentBarred
  <2>2. /\ t.iat \in Nat /\ t.exp \in Nat /\ ttl \in Nat /\ history[t.jti] \in Nat
    BY <2>1, ManagerTyped DEF ManagerTypes
  <2>3. t.exp <= history[t.jti] + ttl
    BY <2>1, <2>2
  <2>4. RT!Barred(t)
    BY <2>1, <2>3 DEF RT!Barred, RT!Bars
  <2> QED
    BY <2>4 DEF RT!RevokedUntilExpiry
<1> QED
  BY <1>1, Inductive, RevocationHoldsInStorage, PTL

(* A sid TerminateSession has taken off the map is in its hands or on the  *)
(* denylist, so once the call has returned no token that carries it is     *)
(* accepted for a TTL, whenever it was signed (storage.go:397-422).        *)
THEOREM LogoutEndsTokens == Spec => []LogoutEndsFamily
<1>1. IInv /\ RTP!IInv => LogoutEndsFamily
  <2> SUFFICES ASSUME IInv, RTP!IInv, NEW t \in issued, t.sid \in terminated,
                      \A r \in Reqs : req[r] # Idle => t.sid \notin req[r].todo
               PROVE  /\ t.sid \in DOMAIN history
                      /\ now <= history[t.sid] + ttl => ~RT!Accepts(t)
    BY DEF LogoutEndsFamily
  <2>1. t.sid \in DOMAIN history
    BY DEF IInv, TerminatedPending, Idle
  <2>2. t.sid \in DOMAIN revoked \/ history[t.sid] + ttl < now
    BY <2>1, ManagerFacts
  <2>3. now \in Nat /\ ttl \in Nat /\ history[t.sid] \in Nat
    BY <2>1, ManagerTyped DEF ManagerTypes
  <2> QED
    BY <2>1, <2>2, <2>3 DEF RT!Accepts, RT!IsRevoked
<1> QED
  BY <1>1, Inductive, PTL

-----------------------------------------------------------------------------
(* Who may take a token out of use.                                        *)

(* A request about to bar an id, and the ids that are not for it to bar.   *)
Revokes(r, id) ==
  \/ req[r].pc = "rotate" /\ id = req[r].jti
  \/ req[r].pc = "terminate" /\ id \in req[r].todo
  \/ req[r].pc = "bar" /\ id = req[r].sid

LEMMA RevokerNamesOwner ==
  ASSUME IInv, NEW r \in Reqs, NEW id, Revokes(r, id), id # 0
  PROVE  /\ id \in DOMAIN owner =>
              req[r].sub = owner[id].sub /\ req[r].client \in {AnyClient, owner[id].client}
         /\ ~StaticIssuer => \A t \in issued : t.jti = id =>
              req[r].sub = owner[t.sid].sub /\ req[r].client = owner[t.sid].client
<1>1. /\ \A t \in issued : t.sid \in DOMAIN owner /\ t.jti \notin DOMAIN owner
      /\ \A t, u \in issued : u.jti = t.jti => u = t
  BY DEF IInv, IdsApart
<1>2. CASE req[r].pc = "rotate" /\ id = req[r].jti
  <2>1. IsToken(req[r].jti, req[r].sid) /\ OwnedBy(req[r].sid, req[r].sub, req[r].client)
    BY <1>2 DEF IInv, Work, Granting
  <2> QED
    BY <1>1, <1>2, <2>1 DEF IsToken, OwnedBy
<1>3. CASE req[r].pc = "terminate" /\ id \in req[r].todo
  <2>1. id \in DOMAIN owner /\ owner[id].sub = req[r].sub
        /\ req[r].client \in {AnyClient, owner[id].client}
    BY <1>3 DEF IInv, Work, Terminating
  <2> QED
    BY <1>1, <2>1
<1>4. CASE req[r].pc = "bar" /\ id = req[r].sid
  <2>1. \/ OwnedBy(id, req[r].sub, req[r].client)
        \/ /\ id \notin DOMAIN owner
           /\ StaticIssuer \/ \A u \in issued : u.jti # id
    BY <1>4 DEF IInv, Work, Revoking
  <2> QED
    BY <1>1, <2>1 DEF OwnedBy
<1> QED
  BY <1>2, <1>3, <1>4 DEF Revokes

(* Only a rotation, a logout or a revocation puts an id on the denylist.   *)
LEMMA RevokersAreRequests ==
  ASSUME IInv, RTP!IInv, Next, ~Restart, NEW id, ~RT!IsRevoked(id), id \in DOMAIN revoked'
  PROVE  \E r \in Reqs : req'[r] # req[r] /\ req[r] # Idle /\ Revokes(r, id)
<1>0. /\ req \in [Reqs -> Working \cup {Idle}]
      /\ \A r \in Reqs : req[r].pc # "idle" => req[r] \in Working
  BY WorkingFields DEF IInv, StorageTypes, ReqType
<1>1. \A x : RT!Revoke(x) => DOMAIN revoked' \subseteq DOMAIN revoked \cup {x}
  BY DEF RT!Revoke, RT!Barring
<1>2. revoked' # revoked
  BY DEF RT!IsRevoked
<1>3. ASSUME NEW r \in Reqs, Rotate(r)
      PROVE  req'[r] # req[r] /\ req[r] # Idle /\ req[r].pc = "rotate" /\ id = req[r].jti
  BY <1>0, <1>1, <1>3 DEF Rotate, Goto, Working, Idle, RT!IsRevoked
<1>4. ASSUME NEW r \in Reqs, NEW sid \in 1..drawn, LogoutRevoke(r, sid)
      PROVE  /\ req'[r] # req[r] /\ req[r] # Idle
             /\ req[r].pc = "terminate" /\ id \in req[r].todo
  <2>1. id = sid /\ req[r].pc = "terminate" /\ sid \in req[r].todo
    BY <1>1, <1>4 DEF LogoutRevoke, RT!IsRevoked
  <2>2. req'[r] = [req[r] EXCEPT !.todo = @ \ {sid}] /\ req[r] \in Working
    BY <1>0, <1>4 DEF LogoutRevoke
  <2>3. req'[r].todo = req[r].todo \ {sid}
    BY <2>2 DEF Working
  <2> QED
    BY <2>1, <2>3 DEF Idle
<1>5. ASSUME NEW r \in Reqs, RevokeBar(r)
      PROVE  req'[r] # req[r] /\ req[r] # Idle /\ req[r].pc = "bar" /\ id = req[r].sid
  BY <1>0, <1>1, <1>5 DEF RevokeBar, Finish, Idle, RT!IsRevoked
<1>6. ASSUME NEW r \in Reqs, Step(r)
      PROVE  \/ Rotate(r) \/ RevokeBar(r) \/ \E sid \in 1..drawn : LogoutRevoke(r, sid)
  BY <1>2, <1>6 DEF Step, Touch, StoreAccess, IssueRefresh, FinishCode, LogoutEnd, RevokeAccess,
        RevokeRaw, RevokeOther, RevokeCheck, manager, RT!Draw, RT!Issue
<1>7. \E r \in Reqs : Step(r)
  <2>1. Tick => FALSE
    BY <1>2 DEF Tick, RT!Tick
  <2>2. ASSUME NEW who \in Who, Login(who) PROVE FALSE
    BY <1>2, <2>2 DEF Login, RT!Draw
  <2>3. ASSUME NEW l \in logins, EvictLogin(l) PROVE FALSE
    BY <1>2, <2>3 DEF EvictLogin, manager
  <2>4. ASSUME NEW r \in Reqs, NEW who \in Who, NEW kind \in {"grant", "access"},
               GrantBegin(r, who, kind)
        PROVE  FALSE
    BY <1>2, <2>4 DEF GrantBegin, RT!Draw
  <2>5. ASSUME NEW r \in Reqs,
               \/ \E l \in logins : RedeemBegin(r, l)
               \/ \E t \in issued : RefreshBegin(r, t)
               \/ \E u \in Subs, c \in Clients \cup {AnyClient} : Logout(r, u, c)
               \/ \E t \in issued, c \in Clients :
                    \/ RevokeRefreshBegin(r, t, c)
                    \/ RevokeJtiBegin(r, t, c) \/ RevokeRawBegin(r, t, c)
               \/ \E j \in DOMAIN accessTokens, c \in Clients : RevokeAccessBegin(r, j, c)
        PROVE  FALSE
    BY <1>2, <2>5 DEF RedeemBegin, RefreshBegin, Logout, RevokeRefreshBegin, RevokeJtiBegin,
          RevokeRawBegin, RevokeAccessBegin, manager
  <2> QED
    BY <2>1, <2>2, <2>3, <2>4, <2>5 DEF Next
<1> QED
  BY <1>3, <1>4, <1>5, <1>6, <1>7 DEF Revokes

(* Only a logout or a revocation drops an access token that has not        *)
(* expired.                                                                *)
LEMMA DroppersAreRequests ==
  ASSUME IInv, RTP!IInv, Next, ~Restart,
         NEW j \in DOMAIN accessTokens, j \notin DOMAIN accessTokens', now <= accessTokens[j].exp
  PROVE  \E r \in Reqs : ActsFor(r, accessTokens[j].sub, accessTokens[j].client)
<1>0. /\ req \in [Reqs -> Working \cup {Idle}] /\ ManagerTypes
      /\ accessTokens[j].exp \in Nat /\ j \in 1..drawn
  BY ManagerTyped DEF IInv, StorageTypes, ReqType, AccessType, Keyed
<1>1. ASSUME NEW r \in Reqs, NEW u \in Subs, NEW c \in Clients \cup {AnyClient}, Logout(r, u, c)
      PROVE  ActsFor(r, accessTokens[j].sub, accessTokens[j].client)
  <2>1. accessTokens[j].sub = u /\ Matches(c, accessTokens[j].client)
    BY <1>1 DEF Logout, Without
  <2>2. /\ req[r] = Idle /\ req'[r].pc = "terminate"
        /\ req'[r].sub = u /\ req'[r].client = c
    BY <1>0, <1>1 DEF Logout, Begin
  <2> QED
    BY <2>1, <2>2 DEF ActsFor, Matches, Idle
<1>2. ASSUME NEW r \in Reqs, RevokeAccess(r)
      PROVE  ActsFor(r, accessTokens[j].sub, accessTokens[j].client)
  <2>1. /\ j = req[r].sid /\ accessTokens[j].client = req[r].client
        /\ req[r].pc = "revoke" /\ req'[r] = Idle
    BY <1>0, <1>2 DEF RevokeAccess, Without, Finish
  <2>2. accessTokens[j].sub = req[r].sub
    BY <2>1 DEF IInv, Work, Revoking
  <2> QED
    BY <2>1, <2>2 DEF ActsFor, Idle
<1>3. ASSUME NEW r \in Reqs, StoreAccess(r) PROVE FALSE
  <2>1. DOMAIN accessTokens' =
          (DOMAIN accessTokens \ {x \in DOMAIN accessTokens : accessTokens[x].exp < now})
            \cup {drawn + 1}
    BY <1>3 DEF StoreAccess, Put, Without
  <2> QED
    BY <1>0, <2>1 DEF ManagerTypes
<1>4. accessTokens' # accessTokens
  OBVIOUS
<1>5. ASSUME NEW r \in Reqs, Step(r) PROVE StoreAccess(r) \/ RevokeAccess(r)
  BY <1>4, <1>5 DEF Step, Touch, IssueRefresh, Rotate, FinishCode, LogoutRevoke, LogoutEnd,
        RevokeRaw, RevokeOther, RevokeCheck, RevokeBar, store
<1>6. \/ \E r \in Reqs : Step(r)
      \/ \E r \in Reqs, u \in Subs, c \in Clients \cup {AnyClient} : Logout(r, u, c)
  <2>1. Tick => FALSE
    BY <1>4 DEF Tick, store
  <2>2. ASSUME NEW who \in Who, Login(who) PROVE FALSE
    BY <1>4, <2>2 DEF Login
  <2>3. ASSUME NEW l \in logins, EvictLogin(l) PROVE FALSE
    BY <1>4, <2>3 DEF EvictLogin
  <2>4. ASSUME NEW r \in Reqs, NEW who \in Who, NEW kind \in {"grant", "access"},
               GrantBegin(r, who, kind)
        PROVE  FALSE
    BY <1>4, <2>4 DEF GrantBegin, store
  <2>5. ASSUME NEW r \in Reqs,
               \/ \E l \in logins : RedeemBegin(r, l)
               \/ \E t \in issued : RefreshBegin(r, t)
               \/ \E t \in issued, c \in Clients :
                    \/ RevokeRefreshBegin(r, t, c)
                    \/ RevokeJtiBegin(r, t, c) \/ RevokeRawBegin(r, t, c)
               \/ \E k \in DOMAIN accessTokens, c \in Clients : RevokeAccessBegin(r, k, c)
        PROVE  FALSE
    BY <1>4, <2>5 DEF RedeemBegin, RefreshBegin, RevokeRefreshBegin, RevokeJtiBegin,
          RevokeRawBegin, RevokeAccessBegin, store
  <2> QED
    BY <2>1, <2>2, <2>3, <2>4, <2>5 DEF Next
<1> QED
  BY <1>1, <1>2, <1>3, <1>5, <1>6

(* So a session ends before its time only by a request on behalf of its    *)
(* own user and client.                                                    *)
LEMMA SessionsHarmed ==
  ASSUME IInv, RTP!IInv, Next, ~Restart, NEW u \in Subs, NEW c \in Clients, HarmsSession(u, c)
  PROVE  \E r \in Reqs : ActsFor(r, u, c)
<1>1. ASSUME NEW sid \in DOMAIN owner, owner[sid] = [sub |-> u, client |-> c], NewlyBarred(sid)
      PROVE  \E r \in Reqs : ActsFor(r, u, c)
  <2>1. PICK r \in Reqs : req'[r] # req[r] /\ req[r] # Idle /\ Revokes(r, sid)
    BY <1>1, RevokersAreRequests DEF NewlyBarred, RT!IsRevoked
  <2>2. sid # 0
    BY ManagerTyped DEF IInv, StorageTypes, OwnerType, Keyed, ManagerTypes
  <2>3. req[r].sub = owner[sid].sub /\ req[r].client \in {AnyClient, owner[sid].client}
    BY <2>1, <2>2, RevokerNamesOwner
  <2> QED
    BY <1>1, <2>1, <2>3 DEF ActsFor
<1>2. ASSUME NEW j \in DOMAIN accessTokens \ DOMAIN accessTokens',
             accessTokens[j].sub = u, accessTokens[j].client = c, now <= accessTokens[j].exp
      PROVE  \E r \in Reqs : ActsFor(r, u, c)
  BY <1>2, DroppersAreRequests
<1> QED
  BY <1>1, <1>2 DEF HarmsSession

(* Whatever the issuer, and so whatever id op makes of the string it is    *)
(* given, a session is barred and an access token dropped before its time  *)
(* only by a request on behalf of its own user and client, or a logout of  *)
(* all the user's clients (storage.go:398-415,442-473).                    *)
THEOREM SessionsAreIsolated == Spec => SessionIsolation
<1>1. IInv /\ RTP!IInv /\ [Next]_vars =>
        [~Restart => \A u \in Subs, c \in Clients :
           HarmsSession(u, c) => \E r \in Reqs : ActsFor(r, u, c)]_vars
  BY SessionsHarmed
<1> QED
  BY <1>1, Inductive, PTL DEF Spec, SessionIsolation

(* And when no issuer is configured, the same of each refresh token: op    *)
(* then never takes one for an access token, so no id one client can name  *)
(* is an id another client's tokens carry.  With a configured issuer this  *)
(* is false, as the jti of any live refresh token can be named.            *)
THEOREM ClientsAreIsolated ==
  ASSUME ~StaticIssuer
  PROVE  Spec => ClientIsolation
<1>1. ASSUME IInv, RTP!IInv, Next, ~Restart, NEW u \in Subs, NEW c \in Clients,
             HarmsSession(u, c) \/ HarmsToken(u, c)
      PROVE  \E r \in Reqs : ActsFor(r, u, c)
  <2>1. ASSUME NEW t \in issued, owner[t.sid] = [sub |-> u, client |-> c], NewlyBarred(t.jti)
        PROVE  \E r \in Reqs : ActsFor(r, u, c)
    <3>1. PICK r \in Reqs : req'[r] # req[r] /\ req[r] # Idle /\ Revokes(r, t.jti)
      BY <1>1, <2>1, RevokersAreRequests DEF NewlyBarred, RT!IsRevoked
    <3>2. t.jti # 0
      BY <1>1, ManagerTyped DEF ManagerTypes
    <3>3. req[r].sub = owner[t.sid].sub /\ req[r].client = owner[t.sid].client
      BY <1>1, <3>1, <3>2, RevokerNamesOwner
    <3> QED
      BY <2>1, <3>1, <3>3 DEF ActsFor
  <2> QED
    BY <1>1, <2>1, SessionsHarmed DEF HarmsToken
<1>2. IInv /\ RTP!IInv /\ [Next]_vars =>
        [~Restart => \A u \in Subs, c \in Clients :
           HarmsSession(u, c) \/ HarmsToken(u, c) => \E r \in Reqs : ActsFor(r, u, c)]_vars
  BY <1>1
<1> QED
  BY <1>2, Inductive, PTL DEF Spec, ClientIsolation
===============================================================================
