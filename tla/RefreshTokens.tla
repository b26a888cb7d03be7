---------------------------- MODULE RefreshTokens ----------------------------
(***************************************************************************)
(* The RefreshTokenManager of internal/provider/tokens.go: it signs        *)
(* self-contained refresh tokens, verifies them, and keeps the denylist    *)
(* `revoked` of session ids and token ids.  The denylist is pruned lazily, *)
(* only from Revoke, and lives in memory: a restart empties it while every *)
(* signed token stays out in the world.                                    *)
(*                                                                         *)
(* One step is what happens under one acquisition of the manager's lock.   *)
(* Issue takes no lock and is one step; Revoke is one critical section;    *)
(* Parse reads the clock (in decode) and then takes the read lock twice,   *)
(* so it is three steps between which Revoke, the clock and other parses   *)
(* may run.                                                                *)
(***************************************************************************)
EXTENDS Integers

CONSTANTS
  Lifetimes,  \* the values of lifetimes.refreshToken a boot may load
  Leeway,     \* what go-jose's Validate forgives past a token's expiry
  Parsers,    \* goroutines verifying a token at the same time
  MaxIds,     \* bound: identifiers drawn by randID
  MaxTime     \* bound: the clock

ASSUME LifetimesAssumption == Lifetimes \subseteq Nat /\ Lifetimes # {}
ASSUME LeewayAssumption    == Leeway \in Nat
ASSUME BoundsAssumption    == MaxIds \in Nat /\ MaxTime \in Nat

VARIABLES
  now,        \* the clock
  drawn,      \* how many identifiers randID has returned; the next is drawn+1
  ttl,        \* m.ttl: this boot's refresh-token lifetime
  issued,     \* every refresh token ever signed with the key
  revoked,    \* m.revoked: sid or jti |-> when it was revoked
  parse,      \* what each Parse in progress has found out
  history     \* history variable: this boot's last Revoke of each id, unpruned

vars == <<now, drawn, ttl, issued, revoked, parse, history>>

Empty  == [id \in {} |-> 0]

Token  == [jti : 1..drawn, sid : 1..drawn, iat : 0..now, exp : Nat]

(* A parse holds its token; `doomed` is a history field, see Decode. *)
Idle   == [stage |-> "idle"]
Parsing == {Idle} \cup
  [stage : {"decoded", "sidClear", "accepted"}, token : Token, doomed : BOOLEAN]

(* What RevokeToken is given may be no identifier at all. *)
NoId == 0

(* A map from drawn identifiers, and NoId, to moments past. *)
IsLog(f) == f \in [DOMAIN f -> 0..now] /\ DOMAIN f \subseteq {NoId} \cup 1..drawn

TypeOK ==
  /\ now \in Nat
  /\ drawn \in Nat
  /\ ttl \in Lifetimes
  /\ issued \subseteq Token
  /\ IsLog(revoked)
  /\ parse \in [Parsers -> Parsing]
  /\ IsLog(history)

-----------------------------------------------------------------------------
(* Verification.                                                           *)

(* `Faulty...` operators are never used: each is a definition with a       *)
(* plausible bug in it, which a property below must be able to tell from   *)
(* the definition that follows.                                            *)

(* decode: signature, issuer and audience always hold of our own tokens;   *)
(* what can fail is the expiry, which go-jose checks with its leeway.      *)
Decodes(t) == now <= t.exp + Leeway

IsRevoked(id) == id \in DOMAIN revoked

(* What Parse would answer if nothing moved while it runs. *)
Accepts(t) == Decodes(t) /\ ~IsRevoked(t.sid) /\ ~IsRevoked(t.jti)

FaultyBarring(id) ==   \* prunes on `>=`: one tick too early
  [x \in {y \in DOMAIN revoked : now - revoked[y] < ttl} \cup {id} |->
     IF x = id THEN now ELSE revoked[x]]

(* The denylist after one Revoke: entries older than the ttl go, id comes. *)
Barring(id) ==
  [x \in {y \in DOMAIN revoked : now - revoked[y] <= ttl} \cup {id} |->
     IF x = id THEN now ELSE revoked[x]]

(* The same without pruning, for `history`. *)
Recording(id) ==
  [x \in DOMAIN history \cup {id} |-> IF x = id THEN now ELSE history[x]]

(* id was revoked late enough in t's life for its entry to outlast t.      *)
Bars(id, t) == id \in DOMAIN history /\ t.exp <= history[id] + ttl

Barred(t) == Bars(t.sid, t) \/ Bars(t.jti, t)

-----------------------------------------------------------------------------
Init ==
  /\ now = 0
  /\ drawn = 0
  /\ ttl \in Lifetimes
  /\ issued = {}
  /\ revoked = Empty
  /\ parse = [p \in Parsers |-> Idle]
  /\ history = Empty

(* randID called for something else than a jti: a session id, an access    *)
(* token's jti, an auth request.                                           *)
Draw ==
  /\ drawn < MaxIds
  /\ drawn' = drawn + 1
  /\ UNCHANGED <<now, ttl, issued, revoked, parse, history>>

FaultyIssue(sid) ==   \* the jti is not drawn: the next randID returns it again
  /\ drawn < MaxIds
  /\ sid \in 1..drawn
  /\ issued' = issued \cup
       {[jti |-> drawn + 1, sid |-> sid, iat |-> now, exp |-> now + ttl]}
  /\ UNCHANGED <<now, drawn, ttl, revoked, parse, history>>

(* Issue(rc): a fresh jti, the caller's session id, the ttl of this boot.  *)
(* It does not consult the denylist.  rc.SID = "" is refused: sid >= 1.    *)
Issue(sid) ==
  /\ drawn < MaxIds
  /\ sid \in 1..drawn
  /\ drawn' = drawn + 1
  /\ issued' = issued \cup
       {[jti |-> drawn + 1, sid |-> sid, iat |-> now, exp |-> now + ttl]}
  /\ UNCHANGED <<now, ttl, revoked, parse, history>>

(* Revoke(id), one critical section of m.mu: the clock is read inside it.  *)
Revoke(id) ==
  /\ id \in {NoId} \cup 1..drawn
  /\ revoked' = Barring(id)
  /\ history' = Recording(id)
  /\ UNCHANGED <<now, drawn, ttl, issued, parse>>

(* Parse, step by step: decode ...                                         *)
Decode(p, t) ==
  /\ parse[p] = Idle
  /\ t \in issued
  /\ Decodes(t)
  /\ parse' = [parse EXCEPT ![p] =
                 [stage |-> "decoded", token |-> t, doomed |-> Barred(t)]]
  /\ UNCHANGED <<now, drawn, ttl, issued, revoked, history>>

(* ... then isRevoked(sid) under the read lock: errRevokedSession, or on   *)
CheckSid(p) ==
  /\ parse[p].stage = "decoded"
  /\ parse' = [parse EXCEPT ![p] =
                 IF IsRevoked(@.token.sid) THEN Idle
                 ELSE [@ EXCEPT !.stage = "sidClear"]]
  /\ UNCHANGED <<now, drawn, ttl, issued, revoked, history>>

FaultyCheckJti(p) ==   \* looks the session id up a second time
  /\ parse[p].stage = "sidClear"
  /\ parse' = [parse EXCEPT ![p] =
                 IF IsRevoked(@.token.sid) THEN Idle
                 ELSE [@ EXCEPT !.stage = "accepted"]]
  /\ UNCHANGED <<now, drawn, ttl, issued, revoked, history>>

(* ... then isRevoked(jti) under the read lock again.                      *)
CheckJti(p) ==
  /\ parse[p].stage = "sidClear"
  /\ parse' = [parse EXCEPT ![p] =
                 IF IsRevoked(@.token.jti) THEN Idle
                 ELSE [@ EXCEPT !.stage = "accepted"]]
  /\ UNCHANGED <<now, drawn, ttl, issued, revoked, history>>

(* The caller has the claims and goes on with the grant. *)
Return(p) ==
  /\ parse[p].stage = "accepted"
  /\ parse' = [parse EXCEPT ![p] = Idle]
  /\ UNCHANGED <<now, drawn, ttl, issued, revoked, history>>

Tick ==
  /\ now < MaxTime
  /\ now' = now + 1
  /\ UNCHANGED <<drawn, ttl, issued, revoked, parse, history>>

(* The process is stopped and started again: the map is gone, the lifetime *)
(* is whatever the config says now, the signing key and so the tokens      *)
(* stay.                                                                   *)
Restart ==
  /\ ttl' \in Lifetimes
  /\ revoked' = Empty
  /\ history' = Empty
  /\ parse' = [p \in Parsers |-> Idle]
  /\ UNCHANGED <<now, drawn, issued>>

Next ==
  \/ Draw
  \/ \E sid \in 1..drawn : Issue(sid)
  \/ \E id \in {NoId} \cup 1..drawn : Revoke(id)
  \/ \E p \in Parsers, t \in issued : Decode(p, t)
  \/ \E p \in Parsers : CheckSid(p) \/ CheckJti(p) \/ Return(p)
  \/ Tick
  \/ Restart

Spec == Init /\ [][Next]_vars

-----------------------------------------------------------------------------
(* Properties.                                                             *)

(* Pruning never brings a revoked token back within its own lifetime: a    *)
(* token whose session id or jti was revoked, late enough in its life for  *)
(* the entry to outlast it, is refused up to and including its expiry.     *)
(* The comparison in Revoke's DeleteFunc (tokens.go:144-146) must not      *)
(* forget an entry one tick too early.                                     *)
RevokedUntilExpiry ==
  \A t \in issued : Barred(t) /\ now <= t.exp => ~Accepts(t)

(* The same seen from a Parse that overlaps revocations, prunes and the    *)
(* clock: if the token was already revoked when decode read it, Parse      *)
(* (tokens.go:91-103) says yes only after the token's own expiry, inside   *)
(* go-jose's leeway.                                                       *)
ParseHonoursRevocation ==
  \A p \in Parsers :
    parse[p].stage = "accepted" /\ parse[p].doomed => parse[p].token.exp < now

(* What tokens.go:137-139 says of a pruned entry: "any token they could    *)
(* bar has expired on its own by then".  The tokens it could bar are those *)
(* already signed when it was entered; expired means decode refuses them.  *)
PrunedBarsNothing ==
  \A t \in issued : \A id \in {t.sid, t.jti} :
    id \in DOMAIN history \ DOMAIN revoked /\ t.iat <= history[id] => ~Decodes(t)
==============================================================================
