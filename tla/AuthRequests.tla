----------------------------- MODULE AuthRequests -----------------------------
(***************************************************************************)
(* The authorization-code flow over Storage.authRequests and Storage.codes *)
(* (internal/provider/storage.go), driven by the picker pages              *)
(* (internal/web/login.go) and by op's callback and token endpoints.       *)
(*                                                                         *)
(* /authorize opens an auth request; the picker, or a login_hint, decides  *)
(* its persona; the callback turns a decided request into a code; the      *)
(* token endpoint resolves the code, answers and deletes the request.      *)
(* Each of the last three holds s.mu more than once and works on a         *)
(* snapshot in between, so it is a worker in Reqs with one step per        *)
(* critical section; the others are one critical section each.             *)
(***************************************************************************)
EXTENDS Integers, FiniteSets

CONSTANTS
  Subs,      \* the personas
  NoHint,    \* the login page may log nobody straight in
  Reqs,      \* requests served at the same time
  TTL,       \* authRequestTTL
  MaxIds,    \* bound: ids and codes drawn
  MaxTime    \* bound: the clock

ASSUME TTLAssumption    == TTL \in Nat
ASSUME BoundsAssumption == MaxIds \in Nat /\ MaxTime \in Nat
ASSUME HintAssumption   == NoHint \notin Subs

VARIABLES
  now,       \* the clock
  drawn,     \* identifiers returned by randID, and codes made by op
  requests,  \* s.authRequests: id |-> request
  codes,     \* s.codes: code |-> id
  req,       \* the requests in progress
  chosen,    \* history variable: the [id, sub] of completions that succeeded
  answers    \* history variable: the token responses given, and by whom

vars == <<now, drawn, requests, codes, req, chosen, answers>>

Idle == [pc |-> "idle"]
NoCode == 0

(* Of login_hint and prompt a request keeps what GET /login makes of them: *)
(* the persona to log straight in, or NoHint if the hint does not pin one  *)
(* down or the prompt asks for interaction.                                *)
Request == [at : 0..now, hint : Subs \cup {NoHint}, done : BOOLEAN,
            subject : Subs \cup {NoHint}, code : 0..drawn]

Working == [pc : {"hinted", "save", "redeem"}, id : 1..drawn, sub : Subs]

TypeOK ==
  /\ now \in Nat
  /\ drawn \in Nat
  /\ DOMAIN requests \subseteq 1..drawn /\ requests \in [DOMAIN requests -> Request]
  /\ DOMAIN codes \subseteq 1..drawn /\ codes \in [DOMAIN codes -> 1..drawn]
  /\ req \in [Reqs -> Working \cup {Idle}]
  /\ chosen \subseteq [id : 1..drawn, sub : Subs]
  /\ answers \subseteq [id : 1..drawn, sub : Subs, by : Reqs]

Empty == [x \in {} |-> 0]

Init ==
  /\ now = 0
  /\ drawn = 0
  /\ requests = Empty
  /\ codes = Empty
  /\ req = [r \in Reqs |-> Idle]
  /\ chosen = {}
  /\ answers = {}

Put(f, k, v) == [x \in DOMAIN f \cup {k} |-> IF x = k THEN v ELSE f[x]]
Without(f, S) == [x \in DOMAIN f \ S |-> f[x]]

Begin(r, pc, id, sub) ==
  /\ req[r] = Idle
  /\ req' = [req EXCEPT ![r] = [pc |-> pc, id |-> id, sub |-> sub]]
Finish(r) == req' = [req EXCEPT ![r] = Idle]

-----------------------------------------------------------------------------
(* A `Faulty...` operator, here and below, is never used: it is the        *)
(* definition after it with a plausible bug, for a property to tell apart. *)

(* /authorize: CreateAuthRequest evicts every flow older than the TTL with *)
(* its code, then registers the new one (prompt=none is refused before).   *)
FaultyAbandoned == {id \in DOMAIN requests : now - requests[id].at >= TTL}
Abandoned == {id \in DOMAIN requests : now - requests[id].at > TTL}

CreateAuthRequest(hint) ==
  /\ drawn < MaxIds
  /\ drawn' = drawn + 1
  /\ requests' = Put(Without(requests, Abandoned), drawn + 1,
       [at |-> now, hint |-> hint, done |-> FALSE, subject |-> NoHint, code |-> NoCode])
  /\ codes' = Without(codes, {requests[id].code : id \in Abandoned})
  /\ UNCHANGED <<now, req, chosen, answers>>

-----------------------------------------------------------------------------
(* The picker.                                                             *)

FaultyPending(id) == id \in DOMAIN requests   \* the done check is missing
Pending(id) == id \in DOMAIN requests /\ ~requests[id].done

(* AuthenticateAndComplete, for a request that exists and is not done. *)
Complete(id, sub) ==
  /\ Pending(id)
  /\ requests' = [requests EXCEPT ![id].done = TRUE, ![id].subject = sub]
  /\ chosen' = chosen \cup {[id |-> id, sub |-> sub]}
  /\ UNCHANGED <<now, drawn, codes, answers>>

(* POST /login/select. *)
PostSelect(id, sub) == Complete(id, sub) /\ UNCHANGED req

(* GET /login: LoginHint says the hinted persona may be logged straight in *)
(* (otherwise the picker is rendered, which changes nothing) ...           *)
GetLogin(r, id) ==
  /\ requests[id].hint # NoHint
  /\ ~requests[id].done
  /\ Begin(r, "hinted", id, requests[id].hint)
  /\ UNCHANGED <<now, drawn, requests, codes, chosen, answers>>

(* ... and s.mu is taken again to complete it; a failure falls back to the *)
(* picker.                                                                 *)
AutoComplete(r) ==
  /\ req[r].pc = "hinted"
  /\ IF Pending(req[r].id)
       THEN Complete(req[r].id, req[r].sub)
       ELSE UNCHANGED <<now, drawn, requests, codes, chosen, answers>>
  /\ Finish(r)

-----------------------------------------------------------------------------
(* The callback, which a browser may reload at any time.                   *)

(* AuthRequestByID: op goes on only with a snapshot that is done ... *)
CallbackBegin(r, id) ==
  /\ requests[id].done
  /\ Begin(r, "save", id, requests[id].subject)
  /\ UNCHANGED <<now, drawn, requests, codes, chosen, answers>>

FaultySaveAuthCode(r) ==   \* the superseded code stays in the map
  /\ req[r].pc = "save"
  /\ drawn < MaxIds
  /\ drawn' = drawn + 1
  /\ LET id == req[r].id IN
       IF id \in DOMAIN requests
         THEN /\ requests' = [requests EXCEPT ![id].code = drawn + 1]
              /\ codes' = Put(codes, drawn + 1, id)
         ELSE UNCHANGED <<requests, codes>>
  /\ Finish(r)
  /\ UNCHANGED <<now, chosen, answers>>

UndrawnSaveAuthCode(r) ==   \* the code is not fresh: a faulty SaveAuthCode
  /\ req[r].pc = "save"
  /\ LET id == req[r].id IN
       IF id \in DOMAIN requests
         THEN /\ requests' = [requests EXCEPT ![id].code = drawn + 1]
              /\ codes' = Put(Without(codes, {requests[id].code}), drawn + 1, id)
         ELSE UNCHANGED <<requests, codes>>
  /\ Finish(r)
  /\ UNCHANGED <<now, drawn, chosen, answers>>

(* ... and SaveAuthCode stores a fresh code in place of an earlier one, if *)
(* the request is still there.                                             *)
SaveAuthCode(r) ==
  /\ req[r].pc = "save"
  /\ drawn < MaxIds
  /\ drawn' = drawn + 1
  /\ LET id == req[r].id IN
       IF id \in DOMAIN requests
         THEN /\ requests' = [requests EXCEPT ![id].code = drawn + 1]
              /\ codes' = Put(Without(codes, {requests[id].code}), drawn + 1, id)
         ELSE UNCHANGED <<requests, codes>>
  /\ Finish(r)
  /\ UNCHANGED <<now, chosen, answers>>

-----------------------------------------------------------------------------
(* The token endpoint.                                                     *)

(* AuthRequestByCode: the snapshot op validates client and PKCE against, *)
(* and mints the tokens from (module Sessions) ...                       *)
RedeemBegin(r, code) ==
  /\ codes[code] \in DOMAIN requests
  /\ Begin(r, "redeem", codes[code], requests[codes[code]].subject)
  /\ UNCHANGED <<now, drawn, requests, codes, chosen, answers>>

(* ... rejects, when the client, the redirect URI or the verifier is wrong *)
(* ...                                                                     *)
RedeemReject(r) ==
  /\ req[r].pc = "redeem"
  /\ Finish(r)
  /\ UNCHANGED <<now, drawn, requests, codes, chosen, answers>>

(* ... or answers, having deleted the request with its current code.       *)
FaultyDeleteAuthRequest(id) ==   \* the code goes, the request stays
  /\ codes' = IF id \in DOMAIN requests
                THEN Without(codes, {requests[id].code}) ELSE codes
  /\ UNCHANGED requests

DeleteAuthRequest(id) ==
  /\ requests' = Without(requests, {id})
  /\ codes' = IF id \in DOMAIN requests
                THEN Without(codes, {requests[id].code}) ELSE codes

RedeemAnswer(r) ==
  /\ req[r].pc = "redeem"
  /\ DeleteAuthRequest(req[r].id)
  /\ answers' = answers \cup {[id |-> req[r].id, sub |-> req[r].sub, by |-> r]}
  /\ Finish(r)
  /\ UNCHANGED <<now, drawn, chosen>>

-----------------------------------------------------------------------------
Tick ==
  /\ now < MaxTime
  /\ now' = now + 1
  /\ UNCHANGED <<drawn, requests, codes, req, chosen, answers>>

(* A restart: the maps and the requests in progress are gone.              *)
Restart ==
  /\ requests' = Empty
  /\ codes' = Empty
  /\ req' = [r \in Reqs |-> Idle]
  /\ chosen' = {}
  /\ answers' = {}
  /\ UNCHANGED <<now, drawn>>

Next ==
  \/ \E hint \in Subs \cup {NoHint} : CreateAuthRequest(hint)
  \/ \E id \in DOMAIN requests, sub \in Subs : PostSelect(id, sub)
  \/ \E r \in Reqs :
       \/ \E id \in DOMAIN requests : GetLogin(r, id) \/ CallbackBegin(r, id)
       \/ AutoComplete(r)
       \/ SaveAuthCode(r)
       \/ \E code \in DOMAIN codes : RedeemBegin(r, code)
       \/ RedeemReject(r)
       \/ RedeemAnswer(r)
  \/ Tick
  \/ Restart

Spec == Init /\ [][Next]_vars

-----------------------------------------------------------------------------
(* Properties.                                                             *)

(* The reverse index is exact under every interleaving of reloads,         *)
(* redemptions and evictions (storage.go:198-211,277-281,288-292): a code  *)
(* resolves to a decided request whose current code it is, and a request   *)
(* with a code is found by it; no superseded code lingers.                 *)
CodesIndexRequests ==
  /\ \A code \in DOMAIN codes :
       /\ codes[code] \in DOMAIN requests
       /\ requests[codes[code]].code = code
       /\ requests[codes[code]].done
  /\ \A id \in DOMAIN requests :
       requests[id].code # NoCode => requests[id].code \in DOMAIN codes

(* A login has one persona, decided by the first completion to get the     *)
(* lock, whether posts and hinted logins race or are replayed; every token *)
(* response of the login names it (storage.go:131-142, login.go:139-146).  *)
OnePersonaPerLogin ==
  /\ \A x, y \in chosen : x.id = y.id => x.sub = y.sub
  /\ \A a \in answers : [id |-> a.id, sub |-> a.sub] \in chosen

(* Once a token response has been given, the login it is of is over: a     *)
(* reloaded callback cannot give it another code (storage.go:285-295).     *)
AnsweredLoginIsGone ==
  \A a \in answers : a.id \notin DOMAIN requests

(* A flow not older than the TTL is never lost to another flow's eviction: *)
(* the tab left open across a workday still completes (storage.go:23-28,   *)
(* 199-209).                                                               *)
YoungFlowsSurvive ==
  [][~Restart => \A id \in DOMAIN requests \ DOMAIN requests' :
       \/ now - requests[id].at > TTL
       \/ \E a \in answers' : a.id = id]_vars

(* storage.go:275: "codes are single-use": no login is answered twice.     *)
CodesAreSingleUse ==
  \A a, b \in answers : a.id = b.id => a.by = b.by
==============================================================================
