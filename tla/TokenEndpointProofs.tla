------------------------- MODULE TokenEndpointProofs -------------------------
(***************************************************************************)
(* Proofs about TokenEndpoint, for every set of configurations, requests   *)
(* and credentials, and every encoding that decodes what it encodes.       *)
(***************************************************************************)
EXTENDS TokenEndpoint, TLAPS

(* A working state of another stage, with another answer, is one.          *)
LEMMA WorkingFields ==
  ASSUME NEW r \in Working
  PROVE  /\ r.pc \in Stages /\ r.in \in Requests /\ r.login \in Login /\ r.auth \in Header
         /\ r.aud \in [items : SUBSET (Id \cup Name), array : Arrays]
         /\ r # Idle
BY DEF Working, Idle, Stages

LEMMA EncodingText ==
  ASSUME NEW in \in Requests
  PROVE  Bridged(in) \in Header /\ Written(in).id \in Id /\ Written(in).secret \in Id
BY EncodingAssumption, RequestAssumption DEF Bridged, Header, Written, Plain, Id

(* The stages in which the credentials have been accepted.                 *)
Accepted == {"admitted", "granted", "stored", "appended"}

(* What the header decodes to is what op accepts exactly if the caller     *)
(* wrote the right credentials.                                            *)
LEMMA BridgeSound ==
  ASSUME NEW in \in Requests, cfg \in Configs
  PROVE  LET c == Plain(Bridged(in))
         IN RightCredentials(in) <=>
              /\ Decodes(Bridged(in))
              /\ Known(c.id) /\ AuthorizeClientIDSecret(c.id, c.secret)
<1> DEFINE c == Plain(Bridged(in))
<1>0. /\ in.basic.sent \in BOOLEAN
      /\ in.body.id \in Text /\ in.body.secret \in Text
      /\ in.body = [id |-> in.body.id, secret |-> in.body.secret]
      /\ "" \notin DOMAIN cfg.clients /\ Undecodable \notin Text
  BY RequestAssumption, ConfigAssumption, EncodingAssumption
<1>1. CASE in.basic.sent
  BY <1>1 DEF Bridged, RightCredentials, Written, Plain, Decodes, Known, AuthorizeClientIDSecret
<1>2. CASE ~in.basic.sent /\ in.body.id # ""
  <2>1. /\ QueryUnescape(QueryEscape(in.body.id)) = in.body.id
        /\ QueryUnescape(QueryEscape(in.body.secret)) = in.body.secret
    BY <1>0, EncodingAssumption
  <2>2. Bridged(in) = [sent |-> TRUE, id |-> QueryEscape(in.body.id),
                       secret |-> QueryEscape(in.body.secret)]
    BY <1>2 DEF Bridged
  <2>3. c.id = in.body.id /\ c.secret = in.body.secret
    BY <2>1, <2>2 DEF Plain
  <2>4. Decodes(Bridged(in))
    <3>1. c.id # Undecodable /\ c.secret # Undecodable
      BY <2>3, <1>0
    <3> QED
      BY <3>1 DEF Decodes, Plain
  <2>5. Written(in) = in.body
    BY <1>2 DEF Written
  <2> HIDE DEF c
  <2>6. RightCredentials(in) <=>
          Permissive \/ (in.body.id \in DOMAIN cfg.clients
                           /\ in.body.secret = cfg.clients[in.body.id].secret)
    BY <2>5, <1>0 DEF RightCredentials
  <2>7. Known(c.id) /\ AuthorizeClientIDSecret(c.id, c.secret) <=>
          Permissive \/ (in.body.id \in DOMAIN cfg.clients
                           /\ in.body.secret = cfg.clients[in.body.id].secret)
    BY <2>3 DEF Known, AuthorizeClientIDSecret
  <2> QED
    BY <2>4, <2>6, <2>7 DEF c
<1>3. CASE ~in.basic.sent /\ in.body.id = ""
  <2>1. Bridged(in) = in.basic /\ in.basic.id = "" /\ in.basic.secret = ""
    BY <1>3, RequestAssumption DEF Bridged
  <2>2. c.id = "" /\ c.secret = "" /\ Decodes(Bridged(in))
    BY <2>1, <1>0, EncodingAssumption DEF Plain, Decodes
  <2>3. Written(in) = in.body
    BY <1>3 DEF Written
  <2> HIDE DEF c
  <2>4. RightCredentials(in) <=> Permissive
    BY <2>3, <1>0, <1>3 DEF RightCredentials
  <2>5. Known(c.id) /\ AuthorizeClientIDSecret(c.id, c.secret) <=> Permissive
    BY <2>2, <1>0 DEF Known, AuthorizeClientIDSecret
  <2> QED
    BY <2>2, <2>4, <2>5 DEF c
<1> QED
  BY <1>0, <1>1, <1>2, <1>3

-----------------------------------------------------------------------------
(* Type correctness.                                                       *)

LEMMA Busy ==
  ASSUME TypeOK, NEW p \in Procs, req[p].pc # "idle"
  PROVE  req[p] \in Working
BY DEF TypeOK, Idle

LEMMA GotoTyped ==
  ASSUME TypeOK, NEW p \in Procs, req[p].pc # "idle", NEW pc \in Stages, Goto(p, pc)
  PROVE  /\ req' \in [Procs -> Working \cup {Idle}]
         /\ req' = [req EXCEPT ![p] = [req[p] EXCEPT !.pc = pc]]
<1>1. req[p] \in Working
  BY Busy
<1>2. [req[p] EXCEPT !.pc = pc] \in Working
  BY <1>1 DEF Working
<1> QED
  BY <1>2 DEF Goto, TypeOK

LEMMA AnswerTyped ==
  ASSUME TypeOK, NEW p \in Procs, req[p].pc # "idle", NEW answer \in Answers, Answer(p, answer)
  PROVE  /\ req' \in [Procs -> Working \cup {Idle}]
         /\ req' = [req EXCEPT ![p] = [req[p] EXCEPT !.pc = "done", !.answer = answer]]
<1>1. req[p] \in Working
  BY Busy
<1>2. [req[p] EXCEPT !.pc = "done", !.answer = answer] \in Working
  BY <1>1 DEF Working, Stages
<1> QED
  BY <1>2 DEF Answer, TypeOK

LEMMA LoginsTyped ==
  ASSUME TypeOK, NEW in \in Requests
  PROVE  Logins(in) \subseteq Login
<1>1. Written(in).id \in Id
  BY EncodingText
<1>2. in.scopes \in SUBSET Name
  BY RequestAssumption
<1>3. DOMAIN cfg.personas \subseteq Name
  BY ConfigAssumption DEF TypeOK
<1>4. NoLogin \in Login
  BY EncodingAssumption, NameAssumption DEF NoLogin, Login, Id
<1>5. {[client |-> Written(in).id, sub |-> s, scopes |-> in.scopes] : s \in DOMAIN cfg.personas}
        \subseteq Login
  BY <1>1, <1>2, <1>3 DEF Login
<1>6. refreshTokens \subseteq Login
  BY DEF TypeOK
<1>7. {[client |-> t.client, sub |-> t.sub, scopes |-> t.scopes] : t \in accessTokens} \subseteq Login
  BY DEF TypeOK
<1>8. in.kind \in Kinds
  BY RequestAssumption
<1> QED
  BY <1>4, <1>5, <1>6, <1>7, <1>8 DEF Logins, Kinds

LEMMA AudiencesTyped ==
  ASSUME cfg \in Configs, NEW id
  PROVE  audienceFor(id) \in SUBSET Name
BY ConfigAssumption DEF audienceFor

LEMMA SeenTyped ==
  ASSUME TypeOK, NEW p \in Procs, req[p].pc # "idle"
  PROVE  Seen(p).id \in Id
<1>1. req[p] \in Working
  BY Busy
<1>2. req[p].in \in Requests /\ req[p].auth \in Header
  BY <1>1, WorkingFields
<1>3. Written(req[p].in).id \in Id
  BY <1>2, EncodingText
<1>4. Plain(req[p].auth).id \in Id
  BY <1>2, EncodingAssumption DEF Plain, Header, Id
<1> QED
  BY <1>3, <1>4 DEF Seen

LEMMA OnlyRequestsChange ==
  ASSUME TypeOK, UNCHANGED <<cfg, spare, accessTokens, refreshTokens>>,
         req' \in [Procs -> Working \cup {Idle}]
  PROVE  TypeOK'
BY DEF TypeOK

LEMMA TypeStep == TypeOK /\ [Next]_vars => TypeOK'
<1> SUFFICES ASSUME TypeOK, [Next]_vars PROVE TypeOK'
  OBVIOUS
<1> USE DEF tokens
<1>1. ASSUME NEW p \in Procs, NEW in \in Requests, Arrive(p, in) PROVE TypeOK'
  <2>1. PICK t \in Logins(in) : req' = [req EXCEPT ![p] =
          [pc |-> "received", in |-> in, login |-> t, auth |-> in.basic, presented |-> FALSE,
           aud |-> [items |-> in.audience, array |-> p], requested |-> in.requested, answer |-> ""]]
    BY <1>1 DEF Arrive
  <2>2. t \in Login
    BY LoginsTyped
  <2>3. /\ in.basic \in Header /\ in.audience \in SUBSET (Id \cup Name) /\ in.requested \in Name
    BY RequestAssumption DEF Header
  <2> DEFINE aud == [items |-> in.audience, array |-> p]
  <2>4. aud \in [items : SUBSET (Id \cup Name), array : Arrays]
    BY <2>3 DEF Arrays
  <2> HIDE DEF aud
  <2>5. [pc |-> "received", in |-> in, login |-> t, auth |-> in.basic, presented |-> FALSE,
         aud |-> aud, requested |-> in.requested, answer |-> ""] \in Working
    BY <2>2, <2>3, <2>4 DEF Working, Stages, Answers
  <2> QED
    BY <1>1, <2>1, <2>5 DEF TypeOK, Arrive, aud
<1>2. ASSUME NEW p \in Procs, DefaultExchangeAudience(p) PROVE TypeOK'
  <2> DEFINE in == req[p].in
             auth == Bridged(in)
  <2>1. req[p] \in Working /\ req[p].pc # "idle"
    BY <1>2, Busy DEF DefaultExchangeAudience
  <2>2. in \in Requests /\ auth \in Header
    BY <2>1, WorkingFields, EncodingText
  <2>a. UNCHANGED <<cfg, spare, accessTokens, refreshTokens>>
    BY <1>2 DEF DefaultExchangeAudience
  <2>3. CASE Answer(p, "invalid_request") \/ Answer(p, "invalid_client")
    BY <2>a, <2>1, <2>3, AnswerTyped, OnlyRequestsChange DEF Answers
  <2>4. CASE Goto(p, "defaulted")
    BY <2>a, <2>1, <2>4, GotoTyped, OnlyRequestsChange DEF Stages
  <2>5. CASE req' = [req EXCEPT ![p].pc = "defaulted", ![p].auth = auth,
                                ![p].aud.items = DefaultAudience(in, auth)]
    <3>1. DefaultAudience(in, auth) \in SUBSET (Id \cup Name)
      BY <2>2, RequestAssumption, AudiencesTyped DEF DefaultAudience, TypeOK
    <3>2. [req[p] EXCEPT !.pc = "defaulted", !.auth = auth,
                         !.aud.items = DefaultAudience(in, auth)] \in Working
      BY <2>1, <2>2, <3>1 DEF Working, Stages
    <3> QED
      BY <1>2, <2>5, <3>2 DEF TypeOK, DefaultExchangeAudience
  <2> QED
    BY <1>2, <2>3, <2>4, <2>5 DEF DefaultExchangeAudience
<1>3. ASSUME NEW p \in Procs, ObserveClientPresentation(p) PROVE TypeOK'
  <2>1. req[p] \in Working
    BY <1>3, Busy DEF ObserveClientPresentation
  <2>2. [req[p] EXCEPT !.pc = "observed",
                       !.presented = PresentsSecret(req[p].auth, req[p].in.body)] \in Working
    BY <2>1 DEF Working, Stages, PresentsSecret
  <2> QED
    BY <1>3, <2>2 DEF TypeOK, ObserveClientPresentation
<1>4. ASSUME NEW p \in Procs, Refuse(p) \/ RefuseExchange(p) PROVE TypeOK'
  <2>1. req[p].pc # "idle"
    BY <1>4 DEF Refuse, RefuseExchange, AtOp
  <2>2. Answer(p, "panic") \/ Answer(p, "invalid_client") \/ Answer(p, "invalid_request")
    BY <1>4 DEF Refuse, RefuseExchange
  <2>3. UNCHANGED <<cfg, spare, accessTokens, refreshTokens>>
    BY <1>4 DEF Refuse, RefuseExchange
  <2> QED
    BY <2>1, <2>2, <2>3, AnswerTyped, OnlyRequestsChange DEF Answers
<1>5. ASSUME NEW p \in Procs, Admit(p) PROVE TypeOK'
  <2>1. req[p].pc # "idle"
    BY <1>5 DEF Admit, AtOp
  <2> QED
    BY <1>5, <2>1, GotoTyped, OnlyRequestsChange DEF Admit, Stages
<1>6. ASSUME NEW p \in Procs, ValidateTokenExchangeRequest(p) PROVE TypeOK'
  <2> DEFINE in == req[p].in
  <2>1. req[p] \in Working /\ req[p].pc # "idle"
    BY <1>6, Busy DEF ValidateTokenExchangeRequest
  <2>2. in \in Requests
    BY <2>1, WorkingFields
  <2>3. PICK s \in Subjects(in) :
          req' = [req EXCEPT ![p].pc = "granted", ![p].requested = RequestedType(in),
                    ![p].login = [client |-> Seen(p).id, sub |-> s, scopes |-> Scopes(in)]]
    BY <1>6 DEF ValidateTokenExchangeRequest
  <2>4. s \in Name
    <3>1. \A t \in accessTokens : t.sub \in Name
      BY DEF TypeOK, Login
    <3>2. \A token \in DOMAIN cfg.tokens : cfg.tokens[token] \in Name
      BY ConfigAssumption DEF TypeOK
    <3> QED
      BY <2>3, <3>1, <3>2 DEF Subjects
  <2>5. Scopes(in) \in SUBSET Name /\ RequestedType(in) \in Name \cup Issuable /\ Seen(p).id \in Id
    <3>1. in.scopes \in SUBSET Name /\ in.requested \in Name
      BY <2>2, RequestAssumption
    <3>2. Scopes(in) \in SUBSET Name
      BY <3>1, NameAssumption DEF Scopes
    <3>3. RequestedType(in) \in Name \cup Issuable
      BY <3>1 DEF RequestedType, Issuable
    <3> QED
      BY <2>1, <3>2, <3>3, SeenTyped
  <2>6. [client |-> Seen(p).id, sub |-> s, scopes |-> Scopes(in)] \in Login
    BY <2>4, <2>5 DEF Login
  <2>7. [req[p] EXCEPT !.pc = "granted", !.requested = RequestedType(in),
           !.login = [client |-> Seen(p).id, sub |-> s, scopes |-> Scopes(in)]] \in Working
    BY <2>1, <2>5, <2>6 DEF Working, Stages
  <2> QED
    BY <1>6, <2>3, <2>7 DEF TypeOK, ValidateTokenExchangeRequest
<1>7. ASSUME NEW p \in Procs, ResolveLogin(p) PROVE TypeOK'
  <2>1. req[p] \in Working
    BY <1>7, Busy DEF ResolveLogin
  <2> DEFINE aud == GetAudience(p, req[p].login.client)
  <2>2. aud \in [items : SUBSET (Id \cup Name), array : Arrays]
    BY <2>1, WorkingFields, AudiencesTyped DEF GetAudience, Arrays, Login, TypeOK
  <2>3. req' = [req EXCEPT ![p] = [req[p] EXCEPT !.pc = "granted", !.requested = "all", !.aud = aud]]
    BY <1>7 DEF ResolveLogin
  <2> HIDE DEF aud
  <2>4. [req[p] EXCEPT !.pc = "granted", !.requested = "all", !.aud = aud] \in Working
    BY <2>1, <2>2 DEF Working, Stages
  <2>5. req' \in [Procs -> Working \cup {Idle}]
    BY <2>3, <2>4 DEF TypeOK
  <2> QED
    BY <1>7, <2>5, OnlyRequestsChange DEF ResolveLogin
<1>8. ASSUME NEW p \in Procs, StoreAccessToken(p) PROVE TypeOK'
  <2> DEFINE t == req[p].login
  <2>1. req[p].pc # "idle"
    BY <1>8 DEF StoreAccessToken
  <2>2. t \in Login
    BY <2>1, Busy, WorkingFields
  <2>3. req' \in [Procs -> Working \cup {Idle}]
    <3>1. Goto(p, "stored") \/ Answer(p, "tokens")
      BY <1>8 DEF StoreAccessToken
    <3> QED
      BY <2>1, <3>1, GotoTyped, AnswerTyped DEF Stages, Answers
  <2>4. refreshTokens' \subseteq Login
    BY <1>8, <2>2 DEF StoreAccessToken, TypeOK
  <2>5. \A u \in accessTokens' : [client |-> u.client, sub |-> u.sub, scopes |-> u.scopes] \in Login
    <3>1. [client |-> t.client, sub |-> t.sub, scopes |-> t.scopes] \in Login
      BY <2>2 DEF Login
    <3> DEFINE new ==
          [client |-> t.client, sub |-> t.sub, scopes |-> t.scopes, aud |-> req[p].aud.items,
           claims |-> releasedClaims(t.sub, withoutUserinfoScopes(t.scopes)), from |-> req[p].in]
    <3>2. new.client = t.client /\ new.sub = t.sub /\ new.scopes = t.scopes
      OBVIOUS
    <3>3. accessTokens' = accessTokens \cup {new}
      BY <1>8 DEF StoreAccessToken
    <3> HIDE DEF new, t
    <3>4. [client |-> new.client, sub |-> new.sub, scopes |-> new.scopes] \in Login
      BY <3>1, <3>2
    <3> QED
      BY <3>3, <3>4 DEF TypeOK
  <2> QED
    BY <1>8, <2>3, <2>4, <2>5 DEF TypeOK, StoreAccessToken
<1>9. ASSUME NEW p \in Procs, AppendClient(p) PROVE TypeOK'
  <2>1. req[p].pc # "idle"
    BY <1>9 DEF AppendClient
  <2>2. req' \in [Procs -> Working \cup {Idle}]
    BY <1>9, <2>1, GotoTyped DEF AppendClient, Stages
  <2>3. req[p].login.client \in Id
    BY <2>1, Busy, WorkingFields DEF Login
  <2>4. spare' \in [Arrays -> Id]
    BY <1>9, <2>3 DEF AppendClient, TypeOK
  <2> QED
    BY <1>9, <2>2, <2>4 DEF TypeOK, AppendClient
<1>10. ASSUME NEW p \in Procs, SignIdToken(p) PROVE TypeOK'
  <2>1. req[p].pc # "idle"
    BY <1>10 DEF SignIdToken
  <2> QED
    BY <1>10, <2>1, AnswerTyped, OnlyRequestsChange DEF Answers, SignIdToken
<1>11. ASSUME NEW p \in Procs, Introspect(p) \/ Userinfo(p) PROVE TypeOK'
  <2>1. req[p].pc # "idle"
    BY <1>11 DEF Introspect, Userinfo
  <2>2. Answer(p, "active") \/ Answer(p, "inactive")
    BY <1>11 DEF Introspect, Userinfo
  <2>3. UNCHANGED <<cfg, spare, accessTokens, refreshTokens>>
    BY <1>11 DEF Introspect, Userinfo
  <2> QED
    BY <2>1, <2>2, <2>3, AnswerTyped, OnlyRequestsChange DEF Answers
<1>12. CASE UNCHANGED vars
  BY <1>12 DEF TypeOK, vars
<1> QED
  BY <1>1, <1>2, <1>3, <1>4, <1>5, <1>6, <1>7, <1>8, <1>9, <1>10, <1>11, <1>12 DEF Next

LEMMA TypeInit == Init => TypeOK
BY EncodingAssumption DEF Init, TypeOK, Id

(* Type correctness: whatever the middleware and op make of a request,     *)
(* its credentials stay well encoded and its tokens name their login.      *)
THEOREM TypeCorrect == Spec => []TypeOK
BY TypeInit, TypeStep, PTL DEF Spec

-----------------------------------------------------------------------------
(* The invariant about an exchange on its way: past the middleware, its    *)
(* header can be decoded and says what the caller wrote; past op's client  *)
(* check, that was right; and so for its answer.                           *)
Progress(p) ==
  req[p].pc # "idle" =>
    /\ req[p].answer # "panic"
    /\ (req[p].pc \notin {"received", "done"} /\ req[p].in.kind = "exchange") =>
         req[p].in.parses /\ req[p].auth = Bridged(req[p].in) /\ Decodes(Bridged(req[p].in))
    /\ (req[p].pc \in Accepted /\ req[p].in.kind = "exchange") => RightCredentials(req[p].in)
    /\ (req[p].pc = "done" /\ req[p].in.kind = "exchange" /\ req[p].in.parses) =>
         (req[p].answer = "invalid_client" <=> ~RightCredentials(req[p].in))

LEMMA ConfigFixed ==
  ASSUME TypeOK, [Next]_vars
  PROVE  cfg' = cfg /\ \A in : RightCredentials(in)' <=> RightCredentials(in)
<1>1. cfg' = cfg
  BY DEF Next, vars, Arrive, DefaultExchangeAudience, ObserveClientPresentation, Refuse,
         Admit, RefuseExchange, ValidateTokenExchangeRequest, ResolveLogin, StoreAccessToken,
         AppendClient, SignIdToken, Introspect, Userinfo
<1> QED
  BY <1>1 DEF RightCredentials, Written, Plain, Permissive

(* A request nobody works on makes no progress.                            *)
LEMMA Unmoved ==
  ASSUME NEW p \in Procs, Progress(p), req'[p] = req[p],
         \A in : RightCredentials(in)' <=> RightCredentials(in)
  PROVE  Progress(p)'
BY DEF Progress, Bridged, Decodes

(* An exchange that goes on to another stage after the middleware.         *)
LEMMA Moved ==
  ASSUME TypeOK, NEW p \in Procs, Progress(p), req'[p].pc \in Accepted, req'[p].in = req[p].in,
         req[p].pc \in Accepted, req'[p].answer = req[p].answer, req'[p].auth = req[p].auth,
         \A in : RightCredentials(in)' <=> RightCredentials(in)
  PROVE  Progress(p)'
BY DEF Progress, Bridged, Decodes, Accepted

(* A request that is answered.                                             *)
LEMMA Answered ==
  ASSUME TypeOK, NEW p \in Procs, req[p].pc # "idle", NEW answer \in Answers, Answer(p, answer),
         answer # "panic",
         \A in : RightCredentials(in)' <=> RightCredentials(in),
         (req[p].in.kind = "exchange" /\ req[p].in.parses) =>
           (answer = "invalid_client" <=> ~RightCredentials(req[p].in))
  PROVE  Progress(p)'
<1>1. req[p] \in Working
  BY Busy
<1>2. req'[p] = [req[p] EXCEPT !.pc = "done", !.answer = answer]
  <2>1. req' = [req EXCEPT ![p] = [req[p] EXCEPT !.pc = "done", !.answer = answer]]
    BY AnswerTyped
  <2> QED
    BY <2>1 DEF TypeOK
<1>3. req'[p].pc = "done" /\ req'[p].answer = answer /\ req'[p].in = req[p].in
  BY <1>1, <1>2 DEF Working
<1> QED
  BY <1>3 DEF Progress, Accepted

Inv == TypeOK /\ \A p \in Procs : Progress(p)

LEMMA InvStep == Inv /\ [Next]_vars => Inv'
<1> SUFFICES ASSUME Inv, [Next]_vars PROVE \A q \in Procs : Progress(q)'
  BY TypeStep DEF Inv
<1> TypeOK /\ \A p \in Procs : Progress(p)
  BY DEF Inv
<1>0. cfg' = cfg /\ \A in : RightCredentials(in)' <=> RightCredentials(in)
  BY ConfigFixed
(* It is enough to look at the request that has made the step.             *)
<1>a. ASSUME NEW p \in Procs, \A q \in Procs \ {p} : req'[q] = req[q], Progress(p)'
      PROVE  \A q \in Procs : Progress(q)'
  BY <1>0, <1>a, Unmoved
<1>b. ASSUME NEW p \in Procs, NEW answer, Answer(p, answer)
      PROVE  \A q \in Procs \ {p} : req'[q] = req[q]
  BY <1>b DEF Answer, TypeOK
<1>c. ASSUME NEW p \in Procs, NEW pc \in Stages, Goto(p, pc), req[p].pc # "idle"
      PROVE  /\ \A q \in Procs \ {p} : req'[q] = req[q]
             /\ req'[p].pc = pc /\ req'[p].in = req[p].in /\ req'[p].auth = req[p].auth
             /\ req'[p].answer = req[p].answer
  <2>1. req[p] \in Working
    BY <1>c, Busy
  <2>2. req' = [req EXCEPT ![p] = [req[p] EXCEPT !.pc = pc]]
    BY <1>c, GotoTyped
  <2>3. req'[p] = [req[p] EXCEPT !.pc = pc] /\ \A q \in Procs \ {p} : req'[q] = req[q]
    BY <2>2 DEF TypeOK
  <2> QED
    BY <2>1, <2>3 DEF Working
<1>1. ASSUME NEW p \in Procs, NEW in \in Requests, Arrive(p, in)
      PROVE  \A q \in Procs : Progress(q)'
  <2>1. PICK t : req' = [req EXCEPT ![p] =
          [pc |-> "received", in |-> in, login |-> t, auth |-> in.basic, presented |-> FALSE,
           aud |-> [items |-> in.audience, array |-> p], requested |-> in.requested, answer |-> ""]]
    BY <1>1 DEF Arrive
  <2>2. req'[p].pc = "received" /\ req'[p].answer = "" /\ \A q \in Procs \ {p} : req'[q] = req[q]
    BY <2>1 DEF TypeOK
  <2>3. Progress(p)'
    BY <2>2 DEF Progress, Accepted
  <2> QED
    BY <1>a, <2>2, <2>3
<1>2. ASSUME NEW p \in Procs, DefaultExchangeAudience(p) PROVE \A q \in Procs : Progress(q)'
  <2> DEFINE in == req[p].in
             auth == Bridged(in)
  <2>1. /\ req[p].pc = "received" /\ req[p] \in Working /\ in \in Requests
    BY <1>2, Busy, WorkingFields DEF DefaultExchangeAudience
  <2>2. CASE ~in.parses /\ Answer(p, "invalid_request")
    <3>1. Progress(p)'
      BY <1>0, <2>1, <2>2, Answered DEF Answers
    <3> QED
      BY <1>a, <1>b, <2>2, <3>1
  <2>3. CASE in.kind # "exchange" /\ Goto(p, "defaulted")
    <3>1. Progress(p)'
      BY <1>c, <2>1, <2>3 DEF Progress, Stages, Accepted
    <3> QED
      BY <1>a, <1>c, <2>1, <2>3, <3>1 DEF Stages
  <2>4. CASE in.kind = "exchange" /\ ~Decodes(auth) /\ Answer(p, "invalid_client")
    <3>1. ~RightCredentials(in)
      BY <2>1, <2>4, BridgeSound DEF TypeOK
    <3>2. Progress(p)'
      BY <1>0, <2>1, <2>4, <3>1, Answered DEF Answers
    <3> QED
      BY <1>a, <1>b, <2>4, <3>2
  <2>5. CASE /\ in.parses /\ in.kind = "exchange" /\ Decodes(auth)
             /\ req' = [req EXCEPT ![p].pc = "defaulted", ![p].auth = auth,
                                   ![p].aud.items = DefaultAudience(in, auth)]
    <3>1. req'[p] = [req[p] EXCEPT !.pc = "defaulted", !.auth = auth,
                                   !.aud.items = DefaultAudience(in, auth)]
      BY <2>5 DEF TypeOK
    <3>2. /\ req'[p].pc = "defaulted" /\ req'[p].auth = auth /\ req'[p].in = in
          /\ req'[p].answer = req[p].answer
      BY <2>1, <3>1 DEF Working
    <3>3. \A q \in Procs \ {p} : req'[q] = req[q]
      BY <2>5 DEF TypeOK
    <3>4. Progress(p)'
      BY <2>1, <2>5, <3>2 DEF Progress, Accepted, Bridged, Decodes
    <3> QED
      BY <1>a, <3>3, <3>4
  <2> QED
    BY <1>2, <2>2, <2>3, <2>4, <2>5 DEF DefaultExchangeAudience
<1>3. ASSUME NEW p \in Procs, ObserveClientPresentation(p) PROVE \A q \in Procs : Progress(q)'
  <2>1. req[p].pc = "defaulted" /\ req[p] \in Working
    BY <1>3, Busy DEF ObserveClientPresentation
  <2>2. req'[p] = [req[p] EXCEPT !.pc = "observed",
                     !.presented = PresentsSecret(req[p].auth, req[p].in.body)]
    BY <1>3 DEF ObserveClientPresentation, TypeOK
  <2>3. /\ req'[p].pc = "observed" /\ req'[p].in = req[p].in /\ req'[p].auth = req[p].auth
        /\ req'[p].answer = req[p].answer
    BY <2>1, <2>2 DEF Working
  <2>4. Progress(p)'
    BY <2>1, <2>3 DEF Progress, Accepted, Bridged, Decodes
  <2> QED
    BY <1>3, <1>a, <2>4 DEF ObserveClientPresentation, TypeOK
(* At op's door an exchange has a header that can be decoded.              *)
<1>d. ASSUME NEW p \in Procs, AtOp(p), req[p].in.kind = "exchange"
      PROVE  /\ Unescapes(p)
             /\ Admitted(p) <=> RightCredentials(req[p].in)
  <2>1. req[p].pc # "idle" /\ req[p].pc \notin {"received", "done"}
    BY <1>d DEF AtOp
  <2>2. req[p].in \in Requests
    BY <2>1, Busy, WorkingFields
  <2>3. req[p].auth = Bridged(req[p].in) /\ Decodes(Bridged(req[p].in))
    BY <1>d, <2>1 DEF Progress
  <2>4. Seen(p) = Plain(Bridged(req[p].in))
    BY <1>d, <2>3 DEF Seen
  <2>5. Unescapes(p)
    BY <2>3, <2>4 DEF Unescapes, Decodes, Plain
  <2>6. Admitted(p) <=> Known(Seen(p).id) /\ AuthorizeClientIDSecret(Seen(p).id, Seen(p).secret)
    BY <1>d, <2>5 DEF Admitted
  <2> QED
    BY <2>2, <2>3, <2>4, <2>5, <2>6, BridgeSound DEF TypeOK
<1>5. ASSUME NEW p \in Procs, Refuse(p) PROVE \A q \in Procs : Progress(q)'
  <2>1. req[p].pc # "idle" /\ Answer(p, "invalid_client")
    BY <1>5, <1>d DEF Refuse, AtOp
  <2>2. req[p].in.kind = "exchange" => ~RightCredentials(req[p].in)
    BY <1>5, <1>d DEF Refuse
  <2>3. Progress(p)'
    BY <1>0, <2>1, <2>2, Answered DEF Answers
  <2> QED
    BY <1>a, <1>b, <2>1, <2>3
<1>6. ASSUME NEW p \in Procs, Admit(p) PROVE \A q \in Procs : Progress(q)'
  <2>1. req[p].pc \notin {"idle", "received", "done"} /\ Goto(p, "admitted")
    BY <1>6 DEF Admit, AtOp
  <2>2. req[p].in.kind = "exchange" => RightCredentials(req[p].in)
    BY <1>6, <1>d DEF Admit
  <2>3. /\ req'[p].pc = "admitted" /\ req'[p].in = req[p].in /\ req'[p].auth = req[p].auth
        /\ req'[p].answer = req[p].answer
    BY <1>c, <2>1 DEF Stages
  <2>4. Progress(p)'
    BY <1>0, <2>1, <2>2, <2>3 DEF Progress, Accepted, Bridged, Decodes
  <2> QED
    BY <1>a, <1>c, <2>1, <2>4 DEF Stages
(* From here on the credentials have been accepted.                        *)
<1>e. ASSUME NEW p \in Procs, NEW answer \in {"invalid_request", "tokens"}, Answer(p, answer),
             req[p].pc \in Accepted
      PROVE  \A q \in Procs : Progress(q)'
  <2>1. req[p].in.kind = "exchange" => RightCredentials(req[p].in)
    BY <1>e DEF Progress, Accepted
  <2>2. Progress(p)'
    BY <1>0, <1>e, <2>1, Answered DEF Answers, Accepted
  <2> QED
    BY <1>a, <1>b, <1>e, <2>2
<1>f. ASSUME NEW p \in Procs, NEW pc \in Accepted, Goto(p, pc), req[p].pc \in Accepted
      PROVE  \A q \in Procs : Progress(q)'
  <2>1. pc \in Stages /\ req[p].pc # "idle"
    BY <1>f DEF Accepted, Stages
  <2>2. Progress(p)'
    BY <1>0, <1>c, <1>f, <2>1, Moved
  <2> QED
    BY <1>a, <1>c, <1>f, <2>1, <2>2
<1>7. ASSUME NEW p \in Procs, RefuseExchange(p) PROVE \A q \in Procs : Progress(q)'
  BY <1>7, <1>e DEF RefuseExchange, Accepted
<1>8. ASSUME NEW p \in Procs, ValidateTokenExchangeRequest(p) PROVE \A q \in Procs : Progress(q)'
  <2>1. req[p].pc = "admitted" /\ req[p] \in Working
    BY <1>8, Busy DEF ValidateTokenExchangeRequest
  <2>2. PICK login, requested :
          req' = [req EXCEPT ![p].pc = "granted", ![p].requested = requested, ![p].login = login]
    BY <1>8 DEF ValidateTokenExchangeRequest
  <2>3. /\ req'[p] = [req[p] EXCEPT !.pc = "granted", !.requested = requested, !.login = login]
        /\ \A q \in Procs \ {p} : req'[q] = req[q]
    BY <2>2 DEF TypeOK
  <2>4. /\ req'[p].pc = "granted" /\ req'[p].in = req[p].in /\ req'[p].auth = req[p].auth
        /\ req'[p].answer = req[p].answer
    BY <2>1, <2>3 DEF Working
  <2>5. Progress(p)'
    BY <1>0, <2>1, <2>4, Moved DEF Accepted
  <2> QED
    BY <1>a, <2>3, <2>5
<1>9. ASSUME NEW p \in Procs, ResolveLogin(p) PROVE \A q \in Procs : Progress(q)'
  <2>1. req[p].pc = "admitted" /\ req[p] \in Working
    BY <1>9, Busy DEF ResolveLogin
  <2>2. PICK aud :
          req' = [req EXCEPT ![p].pc = "granted", ![p].requested = "all", ![p].aud = aud]
    BY <1>9 DEF ResolveLogin
  <2>3. /\ req'[p] = [req[p] EXCEPT !.pc = "granted", !.requested = "all", !.aud = aud]
        /\ \A q \in Procs \ {p} : req'[q] = req[q]
    BY <2>2 DEF TypeOK
  <2>4. /\ req'[p].pc = "granted" /\ req'[p].in = req[p].in /\ req'[p].auth = req[p].auth
        /\ req'[p].answer = req[p].answer
    BY <2>1, <2>3 DEF Working
  <2>5. Progress(p)'
    BY <1>0, <2>1, <2>4, Moved DEF Accepted
  <2> QED
    BY <1>a, <2>3, <2>5
<1>10. ASSUME NEW p \in Procs, StoreAccessToken(p) PROVE \A q \in Procs : Progress(q)'
  <2>1. req[p].pc \in Accepted /\ (Goto(p, "stored") \/ Answer(p, "tokens"))
    BY <1>10 DEF StoreAccessToken, Accepted
  <2> QED
    BY <1>e, <1>f, <2>1 DEF Accepted
<1>11. ASSUME NEW p \in Procs, AppendClient(p) PROVE \A q \in Procs : Progress(q)'
  <2>1. req[p].pc \in Accepted /\ Goto(p, "appended")
    BY <1>11 DEF AppendClient, Accepted
  <2> QED
    BY <1>f, <2>1 DEF Accepted
<1>12. ASSUME NEW p \in Procs, SignIdToken(p) PROVE \A q \in Procs : Progress(q)'
  <2>1. req[p].pc \in Accepted /\ Answer(p, "tokens")
    BY <1>12 DEF SignIdToken, Accepted
  <2> QED
    BY <1>e, <2>1
<1>13. ASSUME NEW p \in Procs, Introspect(p) \/ Userinfo(p) PROVE \A q \in Procs : Progress(q)'
  <2>1. req[p].pc # "idle" /\ req[p].in.kind # "exchange"
    BY <1>13 DEF Introspect, Userinfo
  <2>2. PICK answer \in {"active", "inactive"} : Answer(p, answer)
    BY <1>13 DEF Introspect, Userinfo
  <2>3. Progress(p)'
    BY <1>0, <2>1, <2>2, Answered DEF Answers
  <2> QED
    BY <1>a, <1>b, <2>2, <2>3
<1>14. CASE UNCHANGED vars
  BY <1>0, <1>14, Unmoved DEF vars
<1> QED
  BY <1>1, <1>2, <1>3, <1>5, <1>6, <1>7, <1>8, <1>9, <1>10, <1>11, <1>12, <1>13, <1>14
  DEF Next

LEMMA InvInit == Init => Inv
<1>1. ASSUME Init, NEW p \in Procs PROVE req[p].pc = "idle"
  <2>1. req[p] = Idle
    BY <1>1 DEF Init
  <2>2. Idle.pc = "idle"
    BY DEF Idle
  <2> QED
    BY <2>1, <2>2
<1> QED
  BY <1>1, TypeInit DEF Inv, Progress

(* op never comes to decode a header that cannot be decoded.               *)
THEOREM NeverPanics == Spec => []OpNeverPanics
<1>1. Inv => OpNeverPanics
  <2> SUFFICES ASSUME Inv, NEW p \in Procs, req[p] # Idle PROVE req[p].answer # "panic"
    BY DEF OpNeverPanics
  <2>1. req[p].pc # "idle"
    BY DEF Inv, TypeOK, Working, Stages
  <2> QED
    BY <2>1 DEF Inv, Progress
<1> QED
  BY <1>1, InvInit, InvStep, PTL DEF Spec

(* The credentials as written decide about an exchange's client, whatever  *)
(* way they took.                                                          *)
THEOREM CredentialsSound == Spec => []CredentialsDecide
<1>1. Inv => CredentialsDecide
  BY DEF Inv, Progress, CredentialsDecide
<1> QED
  BY <1>1, InvInit, InvStep, PTL DEF Spec

-----------------------------------------------------------------------------
(* The lists op appends to.  Each request works on a list of its own, so   *)
(* what it put behind the list's end is there when it signs.               *)
OwnList(p) ==
  req[p].pc # "idle" =>
    /\ req[p].aud.array = p
    /\ req[p].pc = "appended" =>
         req[p].login.client \in req[p].aud.items \/ spare[p] = req[p].login.client

ListInv == (\A p \in Procs : OwnList(p)) /\ IdTokenNamesItsClient

(* A step of one request that appends and signs nothing.                   *)
LEMMA NothingAppended ==
  ASSUME ListInv, NEW p \in Procs, UNCHANGED <<spare, idTokens>>,
         \A q \in Procs \ {p} : req'[q] = req[q],
         req'[p].aud.array = p, req'[p].pc # "appended"
  PROVE  ListInv'
<1>1. ASSUME NEW q \in Procs PROVE OwnList(q)'
  BY <1>1 DEF ListInv, OwnList
<1>2. IdTokenNamesItsClient'
  BY DEF ListInv, IdTokenNamesItsClient
<1> QED
  BY <1>1, <1>2 DEF ListInv

LEMMA GotoFields ==
  ASSUME TypeOK, NEW p \in Procs, req[p].pc # "idle", NEW pc \in Stages, Goto(p, pc)
  PROVE  /\ \A q \in Procs \ {p} : req'[q] = req[q]
         /\ req'[p].pc = pc /\ req'[p].aud = req[p].aud /\ req'[p].login = req[p].login
         /\ req'[p].in = req[p].in /\ req'[p].auth = req[p].auth
         /\ req'[p].presented = req[p].presented
<1>1. req[p] \in Working
  BY Busy
<1>2. req' = [req EXCEPT ![p] = [req[p] EXCEPT !.pc = pc]]
  BY GotoTyped
<1>3. req'[p] = [req[p] EXCEPT !.pc = pc] /\ \A q \in Procs \ {p} : req'[q] = req[q]
  BY <1>2 DEF TypeOK
<1> QED
  BY <1>1, <1>3 DEF Working

LEMMA AnswerFields ==
  ASSUME TypeOK, NEW p \in Procs, req[p].pc # "idle", NEW answer \in Answers, Answer(p, answer)
  PROVE  /\ \A q \in Procs \ {p} : req'[q] = req[q]
         /\ req'[p].pc = "done" /\ req'[p].aud = req[p].aud
<1>1. req[p] \in Working
  BY Busy
<1>2. req' = [req EXCEPT ![p] = [req[p] EXCEPT !.pc = "done", !.answer = answer]]
  BY AnswerTyped
<1>3. /\ req'[p] = [req[p] EXCEPT !.pc = "done", !.answer = answer]
      /\ \A q \in Procs \ {p} : req'[q] = req[q]
  BY <1>2 DEF TypeOK
<1> QED
  BY <1>1, <1>3 DEF Working

LEMMA ListStep == TypeOK /\ ListInv /\ [Next]_vars => ListInv'
<1> SUFFICES ASSUME TypeOK, ListInv, [Next]_vars PROVE ListInv'
  OBVIOUS
<1>a. ASSUME NEW p \in Procs, req[p].pc # "idle" PROVE req[p].aud.array = p /\ req[p] \in Working
  BY <1>a, Busy DEF ListInv, OwnList
<1>g. ASSUME NEW p \in Procs, req[p].pc # "idle", NEW pc \in Stages \ {"appended"}, Goto(p, pc),
             UNCHANGED <<spare, idTokens>>
      PROVE  ListInv'
  BY <1>a, <1>g, GotoFields, NothingAppended
<1>h. ASSUME NEW p \in Procs, req[p].pc # "idle", NEW answer \in Answers, Answer(p, answer),
             UNCHANGED <<spare, idTokens>>
      PROVE  ListInv'
  BY <1>a, <1>h, AnswerFields, NothingAppended
<1>1. ASSUME NEW p \in Procs, NEW in \in Requests, Arrive(p, in) PROVE ListInv'
  <2> DEFINE aud == [items |-> in.audience, array |-> p]
  <2>1. PICK t : req' = [req EXCEPT ![p] =
          [pc |-> "received", in |-> in, login |-> t, auth |-> in.basic, presented |-> FALSE,
           aud |-> aud, requested |-> in.requested, answer |-> ""]]
    BY <1>1 DEF Arrive
  <2>2. aud.array = p
    OBVIOUS
  <2> HIDE DEF aud
  <2>3. req'[p].aud.array = p /\ req'[p].pc = "received" /\ \A q \in Procs \ {p} : req'[q] = req[q]
    BY <2>1, <2>2 DEF TypeOK
  <2> QED
    BY <1>1, <2>3, NothingAppended DEF Arrive, tokens
<1>2. ASSUME NEW p \in Procs, DefaultExchangeAudience(p) PROVE ListInv'
  <2>1. req[p].pc # "idle" /\ UNCHANGED <<spare, idTokens>>
    BY <1>2 DEF DefaultExchangeAudience, tokens
  <2>2. CASE Answer(p, "invalid_request") \/ Answer(p, "invalid_client")
    BY <1>h, <2>1, <2>2 DEF Answers
  <2>3. CASE Goto(p, "defaulted")
    BY <1>g, <2>1, <2>3 DEF Stages
  <2>4. ASSUME NEW auth, NEW items,
               req' = [req EXCEPT ![p].pc = "defaulted", ![p].auth = auth, ![p].aud.items = items]
        PROVE  ListInv'
    <3>1. /\ req'[p] = [req[p] EXCEPT !.pc = "defaulted", !.auth = auth, !.aud.items = items]
          /\ \A q \in Procs \ {p} : req'[q] = req[q]
      BY <2>4 DEF TypeOK
    <3>2. req'[p].pc = "defaulted" /\ req'[p].aud = [req[p].aud EXCEPT !.items = items]
      BY <1>a, <2>1, <3>1 DEF Working
    <3>3. req'[p].aud.array = p
      BY <1>a, <2>1, <3>2, WorkingFields
    <3> QED
      BY <2>1, <3>1, <3>2, <3>3, NothingAppended
  <2> QED
    BY <1>2, <2>2, <2>3, <2>4 DEF DefaultExchangeAudience
<1>3. ASSUME NEW p \in Procs, ObserveClientPresentation(p) PROVE ListInv'
  <2>1. PICK presented : req' = [req EXCEPT ![p].pc = "observed", ![p].presented = presented]
    BY <1>3 DEF ObserveClientPresentation
  <2>2. /\ req'[p] = [req[p] EXCEPT !.pc = "observed", !.presented = presented]
        /\ \A q \in Procs \ {p} : req'[q] = req[q]
    BY <2>1 DEF TypeOK
  <2>3. req'[p].pc = "observed" /\ req'[p].aud.array = p
    <3>1. req[p].aud.array = p /\ req[p] \in Working
      BY <1>3, <1>a DEF ObserveClientPresentation
    <3>2. req'[p].pc = "observed" /\ req'[p].aud = req[p].aud
      BY <2>2, <3>1 DEF Working
    <3> QED
      BY <3>1, <3>2
  <2> QED
    BY <1>3, <2>2, <2>3, NothingAppended DEF ObserveClientPresentation, tokens
<1>4. ASSUME NEW p \in Procs, Refuse(p) \/ RefuseExchange(p) PROVE ListInv'
  <2>1. req[p].pc # "idle" /\ UNCHANGED <<spare, idTokens>>
    BY <1>4 DEF Refuse, RefuseExchange, AtOp, tokens
  <2>2. Answer(p, "panic") \/ Answer(p, "invalid_client") \/ Answer(p, "invalid_request")
    BY <1>4 DEF Refuse, RefuseExchange
  <2> QED
    BY <1>h, <2>1, <2>2 DEF Answers
<1>5. ASSUME NEW p \in Procs, Admit(p) PROVE ListInv'
  <2>1. req[p].pc # "idle" /\ UNCHANGED <<spare, idTokens>> /\ Goto(p, "admitted")
    BY <1>5 DEF Admit, AtOp, tokens
  <2> QED
    BY <1>g, <2>1 DEF Stages
<1>6. ASSUME NEW p \in Procs, ValidateTokenExchangeRequest(p) PROVE ListInv'
  <2>1. PICK login, requested :
          req' = [req EXCEPT ![p].pc = "granted", ![p].requested = requested, ![p].login = login]
    BY <1>6 DEF ValidateTokenExchangeRequest
  <2>2. /\ req'[p] = [req[p] EXCEPT !.pc = "granted", !.requested = requested, !.login = login]
        /\ \A q \in Procs \ {p} : req'[q] = req[q]
    BY <2>1 DEF TypeOK
  <2>3. req'[p].pc = "granted" /\ req'[p].aud.array = p
    <3>1. req[p].aud.array = p /\ req[p] \in Working
      BY <1>6, <1>a DEF ValidateTokenExchangeRequest
    <3>2. req'[p].pc = "granted" /\ req'[p].aud = req[p].aud
      BY <2>2, <3>1 DEF Working
    <3> QED
      BY <3>1, <3>2
  <2> QED
    BY <1>6, <2>2, <2>3, NothingAppended DEF ValidateTokenExchangeRequest, tokens
<1>7. ASSUME NEW p \in Procs, ResolveLogin(p) PROVE ListInv'
  <2> DEFINE aud == GetAudience(p, req[p].login.client)
  <2>1. aud.array = p
    BY DEF GetAudience
  <2>2. req' = [req EXCEPT ![p].pc = "granted", ![p].requested = "all", ![p].aud = aud]
    BY <1>7 DEF ResolveLogin
  <2> HIDE DEF aud
  <2>3. /\ req'[p] = [req[p] EXCEPT !.pc = "granted", !.requested = "all", !.aud = aud]
        /\ \A q \in Procs \ {p} : req'[q] = req[q]
    BY <2>2 DEF TypeOK
  <2>4. req'[p].pc = "granted" /\ req'[p].aud.array = p
    <3>1. req[p] \in Working
      BY <1>7, <1>a DEF ResolveLogin
    <3>2. req'[p].pc = "granted" /\ req'[p].aud = aud
      BY <2>3, <3>1 DEF Working
    <3> QED
      BY <2>1, <3>2
  <2> QED
    BY <1>7, <2>3, <2>4, NothingAppended DEF ResolveLogin, tokens
<1>8. ASSUME NEW p \in Procs, StoreAccessToken(p) PROVE ListInv'
  <2>1. /\ req[p].pc # "idle" /\ UNCHANGED <<spare, idTokens>>
        /\ Goto(p, "stored") \/ Answer(p, "tokens")
    BY <1>8 DEF StoreAccessToken
  <2> QED
    BY <1>g, <1>h, <2>1 DEF Stages, Answers
<1>9. ASSUME NEW p \in Procs, AppendClient(p) PROVE ListInv'
  <2>1. req[p].pc # "idle" /\ Goto(p, "appended") /\ idTokens' = idTokens
    BY <1>9 DEF AppendClient, tokens
  <2>2. /\ \A q \in Procs \ {p} : req'[q] = req[q]
        /\ req'[p].pc = "appended" /\ req'[p].aud = req[p].aud /\ req'[p].login = req[p].login
    BY <2>1, GotoFields DEF Stages
  <2>3. spare' = [spare EXCEPT ![p] =
                    IF req[p].login.client \in req[p].aud.items THEN @ ELSE req[p].login.client]
    BY <1>9, <1>a, <2>1 DEF AppendClient
  <2>4. OwnList(p)'
    BY <1>a, <2>1, <2>2, <2>3 DEF OwnList, TypeOK, Arrays
  <2>5. ASSUME NEW q \in Procs \ {p} PROVE OwnList(q)'
    <3>1. spare'[q] = spare[q]
      BY <2>3 DEF TypeOK, Arrays
    <3> QED
      BY <2>2, <3>1 DEF ListInv, OwnList
  <2>6. IdTokenNamesItsClient'
    BY <2>1 DEF ListInv, IdTokenNamesItsClient
  <2> QED
    BY <2>4, <2>5, <2>6 DEF ListInv
<1>10. ASSUME NEW p \in Procs, SignIdToken(p) PROVE ListInv'
  <2> DEFINE t == req[p].login
             r == req[p].aud
             new == [client |-> t.client, asked |-> r.items,
                     aud |-> r.items \cup IF t.client \in r.items THEN {} ELSE {spare[r.array]},
                     scopes |-> t.scopes, claims |-> releasedClaims(t.sub, t.scopes)]
  <2>1. req[p].pc = "appended" /\ Answer(p, "tokens") /\ spare' = spare
    BY <1>10 DEF SignIdToken
  <2>2. \A q \in Procs \ {p} : req'[q] = req[q]
    BY <2>1, AnswerFields DEF Answers
  <2>3. req'[p].pc = "done" /\ req'[p].aud = req[p].aud
    BY <2>1, AnswerFields DEF Answers
  <2>4. ASSUME NEW q \in Procs PROVE OwnList(q)'
    BY <2>1, <2>2, <2>3, <2>4 DEF ListInv, OwnList
  <2>5. r.array = p /\ (t.client \in r.items \/ spare[p] = t.client)
    BY <2>1 DEF ListInv, OwnList
  <2>6. new.aud = new.asked \cup {new.client}
    BY <2>5
  <2>7. idTokens' = idTokens \cup {new}
    BY <1>10 DEF SignIdToken
  <2> HIDE DEF new
  <2>8. IdTokenNamesItsClient'
    BY <2>6, <2>7 DEF ListInv, IdTokenNamesItsClient
  <2> QED
    BY <2>4, <2>8 DEF ListInv
<1>11. ASSUME NEW p \in Procs, Introspect(p) \/ Userinfo(p) PROVE ListInv'
  <2>1. /\ req[p].pc # "idle" /\ UNCHANGED <<spare, idTokens>>
        /\ Answer(p, "active") \/ Answer(p, "inactive")
    BY <1>11 DEF Introspect, Userinfo
  <2> QED
    BY <1>h, <2>1 DEF Answers
<1>12. CASE UNCHANGED vars
  BY <1>12 DEF vars, tokens, ListInv, OwnList, IdTokenNamesItsClient
<1> QED
  BY <1>1, <1>2, <1>3, <1>4, <1>5, <1>6, <1>7, <1>8, <1>9, <1>10, <1>11, <1>12 DEF Next

LEMMA ListInit == Init => ListInv
<1> SUFFICES ASSUME Init PROVE ListInv
  OBVIOUS
<1>1. ASSUME NEW p \in Procs PROVE OwnList(p)
  <2>1. req[p] = Idle
    BY DEF Init
  <2>2. Idle.pc = "idle"
    BY DEF Idle
  <2> QED
    BY <2>1, <2>2 DEF OwnList
<1>2. IdTokenNamesItsClient
  BY DEF Init, IdTokenNamesItsClient
<1> QED
  BY <1>1, <1>2 DEF ListInv

(* Whatever requests op works on at once, an id token is signed for the    *)
(* audience of its own request and its own client.                         *)
THEOREM IdTokensKeepTheirAudience == Spec => []IdTokenNamesItsClient
<1>1. ListInv => IdTokenNamesItsClient
  BY DEF ListInv
<1> QED
  BY <1>1, TypeCorrect, ListInit, ListStep, PTL DEF Spec

-----------------------------------------------------------------------------
(* The way of the credentials and the audience, for the other promises.    *)

Configured(aud, client) ==
  aud = audienceFor(client) \/ (audienceFor(client) = {} /\ aud = {client})

HasProof(in) == in.challenge \/ in.basic.secret # "" \/ in.body.secret # ""

(* Up to op's door a request other than an exchange keeps its header, and  *)
(* an exchange the audience of the client its header names; an admitted    *)
(* code had a proof and an admitted introspection the client's secret;     *)
(* then the audience is that of the login.                                 *)
Path(p) ==
  /\ req[p].pc \in {"received", "defaulted", "observed"} /\ req[p].in.kind # "exchange" =>
       req[p].auth = req[p].in.basic
  /\ req[p].pc = "observed" =>
       Permissive /\ req[p].presented = PresentsSecret(req[p].auth, req[p].in.body)
  /\ req[p].pc \in Accepted /\ req[p].in.kind = "code" => HasProof(req[p].in)
  /\ req[p].pc = "admitted" /\ req[p].in.kind = "introspect" =>
       AuthorizeClientIDSecret(Seen(p).id, Seen(p).secret)
  /\ req[p].pc \in {"defaulted", "observed", "admitted"} /\ req[p].in.kind = "exchange"
       /\ req[p].in.audience = {} =>
         req[p].aud.items = audienceFor(QueryUnescape(req[p].auth.id))
  /\ req[p].pc \in {"granted", "stored", "appended"} /\ req[p].in.audience = {} =>
       Configured(req[p].aud.items, req[p].login.client)

(* What a step of another request leaves alone.                            *)
LEMMA PathUnmoved ==
  ASSUME NEW p \in Procs, Path(p), req'[p] = req[p], cfg' = cfg PROVE Path(p)'
BY DEF Path, Permissive, PresentsSecret, HasProof, AuthorizeClientIDSecret, Seen, Plain, Written,
       audienceFor, Configured

LEMMA PathDone ==
  ASSUME NEW p \in Procs, req'[p].pc = "done" PROVE Path(p)'
BY DEF Path, Accepted

(* Past the grant only the stage changes.                                  *)
LEMMA PathGranted ==
  ASSUME TypeOK, NEW p \in Procs, Path(p), cfg' = cfg, req[p].pc \in {"granted", "stored"},
         NEW pc \in {"stored", "appended"}, Goto(p, pc)
  PROVE  Path(p)'
<1>1. /\ req'[p].pc = pc /\ req'[p].aud = req[p].aud /\ req'[p].login = req[p].login
      /\ req'[p].in = req[p].in
  BY GotoFields DEF Stages
<1>2. req[p].in.audience = {} => Configured(req[p].aud.items, req[p].login.client)'
  BY <1>1 DEF Path, Configured, audienceFor
<1>3. req[p].in.kind = "code" => HasProof(req[p].in)'
  BY <1>1 DEF Path, HasProof, Accepted
<1> QED
  BY <1>1, <1>2, <1>3 DEF Path, Accepted

(* At the door: a code admitted without PKCE came with a secret.  In       *)
(* permissive mode that is what made its client a confidential one; else   *)
(* it is the client's own, which is not empty, and what decodes to         *)
(* something is not empty either.                                          *)
LEMMA CodeAdmitted ==
  ASSUME TypeOK, NEW p \in Procs, Path(p), AtOp(p), Admitted(p), req[p].in.kind = "code"
  PROVE  HasProof(req[p].in)
<1> DEFINE in == req[p].in
           c == Written(in)
<1>0. in \in Requests /\ req[p].pc \in {"defaulted", "observed"}
  BY Busy, WorkingFields DEF AtOp
<1>1. Seen(p) = c
  BY DEF Seen
<1>2. IsPublic(c.id, req[p].presented) => in.challenge
  BY <1>1 DEF Admitted
<1>3. ~IsPublic(c.id, req[p].presented) => AuthorizeClientIDSecret(c.id, c.secret)
  BY <1>1 DEF Admitted
<1>4. CASE Permissive /\ req[p].presented
  <2>1. req[p].pc = "observed"
    BY <1>4 DEF AtOp
  <2>2. req[p].auth = in.basic /\ PresentsSecret(req[p].auth, in.body)
    BY <1>4, <2>1 DEF Path
  <2> QED
    BY <2>2 DEF PresentsSecret, HasProof
<1>5. CASE Permissive /\ ~req[p].presented
  BY <1>2, <1>5 DEF IsPublic, HasProof
<1>6. CASE ~Permissive /\ cfg.clients[c.id].secret = ""
  BY <1>2, <1>6 DEF IsPublic, HasProof
<1>7. CASE ~Permissive /\ cfg.clients[c.id].secret # ""
  <2>1. c.secret # ""
    BY <1>3, <1>7 DEF IsPublic, AuthorizeClientIDSecret
  <2>2. in.basic.sent => in.basic.secret # ""
    BY <2>1, EncodingAssumption DEF Written, Plain
  <2>3. ~in.basic.sent => in.body.secret # ""
    BY <2>1 DEF Written
  <2> QED
    BY <2>2, <2>3 DEF HasProof
<1> QED
  BY <1>4, <1>5, <1>6, <1>7

LEMMA PathStep ==
  TypeOK /\ (\A p \in Procs : Path(p)) /\ [Next]_vars => \A p \in Procs : Path(p)'
<1> SUFFICES ASSUME TypeOK, \A p \in Procs : Path(p), [Next]_vars
             PROVE  \A q \in Procs : Path(q)'
  OBVIOUS
<1>0. cfg' = cfg
  BY ConfigFixed
(* It is enough to look at the request that has made the step.             *)
<1>a. ASSUME NEW p \in Procs, \A q \in Procs \ {p} : req'[q] = req[q], Path(p)'
      PROVE  \A q \in Procs : Path(q)'
  BY <1>0, <1>a, PathUnmoved
<1>b. ASSUME NEW p \in Procs, req[p].pc # "idle", NEW answer \in Answers, Answer(p, answer)
      PROVE  \A q \in Procs : Path(q)'
  <2>1. req'[p].pc = "done" /\ \A q \in Procs \ {p} : req'[q] = req[q]
    BY <1>b, AnswerFields
  <2> QED
    BY <1>a, <2>1, PathDone
<1>1. ASSUME NEW p \in Procs, NEW in \in Requests, Arrive(p, in) PROVE \A q \in Procs : Path(q)'
  <2>1. PICK t : req' = [req EXCEPT ![p] =
          [pc |-> "received", in |-> in, login |-> t, auth |-> in.basic, presented |-> FALSE,
           aud |-> [items |-> in.audience, array |-> p], requested |-> in.requested, answer |-> ""]]
    BY <1>1 DEF Arrive
  <2>2. /\ req'[p].pc = "received" /\ req'[p].auth = in.basic /\ req'[p].in = in
        /\ \A q \in Procs \ {p} : req'[q] = req[q]
    BY <2>1 DEF TypeOK
  <2>3. Path(p)'
    BY <2>2 DEF Path, Accepted
  <2> QED
    BY <1>a, <2>2, <2>3
<1>2. ASSUME NEW p \in Procs, DefaultExchangeAudience(p) PROVE \A q \in Procs : Path(q)'
  <2> DEFINE in == req[p].in
             auth == Bridged(in)
  <2>1. req[p].pc = "received" /\ req[p] \in Working /\ in \in Requests
    BY <1>2, Busy, WorkingFields DEF DefaultExchangeAudience
  <2>2. CASE Answer(p, "invalid_request") \/ Answer(p, "invalid_client")
    BY <1>b, <2>1, <2>2 DEF Answers
  <2>3. CASE in.kind # "exchange" /\ Goto(p, "defaulted")
    <3>1. /\ \A q \in Procs \ {p} : req'[q] = req[q]
          /\ req'[p].pc = "defaulted" /\ req'[p].in = in /\ req'[p].auth = req[p].auth
      BY <2>1, <2>3, GotoFields DEF Stages
    <3>2. Path(p)'
      BY <2>1, <2>3, <3>1 DEF Path, Accepted
    <3> QED
      BY <1>a, <3>1, <3>2
  <2>4. CASE /\ in.kind = "exchange"
             /\ req' = [req EXCEPT ![p].pc = "defaulted", ![p].auth = auth,
                                   ![p].aud.items = DefaultAudience(in, auth)]
    <3>1. req'[p] = [req[p] EXCEPT !.pc = "defaulted", !.auth = auth,
                                   !.aud.items = DefaultAudience(in, auth)]
      BY <2>4 DEF TypeOK
    <3>2. /\ req'[p].pc = "defaulted" /\ req'[p].auth = auth /\ req'[p].in = in
          /\ req'[p].aud = [req[p].aud EXCEPT !.items = DefaultAudience(in, auth)]
      BY <2>1, <3>1 DEF Working
    <3>3. req'[p].aud.items = DefaultAudience(in, auth)
      BY <2>1, <3>2, WorkingFields
    <3>4. in.audience = {} => req'[p].aud.items = audienceFor(QueryUnescape(auth.id))
      BY <3>3 DEF DefaultAudience
    <3>5. \A q \in Procs \ {p} : req'[q] = req[q]
      BY <2>4 DEF TypeOK
    <3>6. Path(p)'
      BY <1>0, <2>4, <3>2, <3>4 DEF Path, Accepted, audienceFor
    <3> QED
      BY <1>a, <3>5, <3>6
  <2> QED
    BY <1>2, <2>2, <2>3, <2>4 DEF DefaultExchangeAudience
<1>3. ASSUME NEW p \in Procs, ObserveClientPresentation(p) PROVE \A q \in Procs : Path(q)'
  <2>1. req[p].pc = "defaulted" /\ req[p] \in Working /\ Permissive
    BY <1>3, Busy DEF ObserveClientPresentation
  <2>2. /\ req'[p] = [req[p] EXCEPT !.pc = "observed",
                        !.presented = PresentsSecret(req[p].auth, req[p].in.body)]
        /\ \A q \in Procs \ {p} : req'[q] = req[q]
    BY <1>3 DEF ObserveClientPresentation, TypeOK
  <2>3. /\ req'[p].pc = "observed" /\ req'[p].in = req[p].in /\ req'[p].auth = req[p].auth
        /\ req'[p].aud = req[p].aud
        /\ req'[p].presented = PresentsSecret(req[p].auth, req[p].in.body)
    BY <2>1, <2>2 DEF Working
  <2>4. Path(p)'
    BY <1>0, <2>1, <2>3 DEF Path, Accepted, PresentsSecret, Permissive, audienceFor
  <2> QED
    BY <1>a, <2>2, <2>4
<1>4. ASSUME NEW p \in Procs, Refuse(p) \/ RefuseExchange(p) PROVE \A q \in Procs : Path(q)'
  <2>1. req[p].pc # "idle"
    BY <1>4 DEF Refuse, RefuseExchange, AtOp
  <2>2. Answer(p, "panic") \/ Answer(p, "invalid_client") \/ Answer(p, "invalid_request")
    BY <1>4 DEF Refuse, RefuseExchange
  <2> QED
    BY <1>b, <2>1, <2>2 DEF Answers
<1>5. ASSUME NEW p \in Procs, Admit(p) PROVE \A q \in Procs : Path(q)'
  <2>1. req[p].pc \in {"defaulted", "observed"} /\ AtOp(p) /\ Admitted(p) /\ Goto(p, "admitted")
    BY <1>5 DEF Admit, AtOp
  <2>2. /\ \A q \in Procs \ {p} : req'[q] = req[q]
        /\ req'[p].pc = "admitted" /\ req'[p].aud = req[p].aud
        /\ req'[p].in = req[p].in /\ req'[p].auth = req[p].auth
    BY <2>1, GotoFields DEF Stages
  <2>3. req[p].in.kind = "code" => HasProof(req[p].in)
    BY <2>1, CodeAdmitted
  <2>4. req[p].in.kind = "introspect" => AuthorizeClientIDSecret(Seen(p).id, Seen(p).secret)
    BY <2>1 DEF Admitted
  <2>5. req'[p].in.kind = "introspect" => AuthorizeClientIDSecret(Seen(p).id, Seen(p).secret)'
    BY <1>0, <2>2, <2>4 DEF AuthorizeClientIDSecret, Permissive, Seen, Plain
  <2>6. (req[p].in.kind = "exchange" /\ req[p].in.audience = {}) =>
          req[p].aud.items = audienceFor(QueryUnescape(req[p].auth.id))
    BY <2>1 DEF Path
  <2>7. (req'[p].in.kind = "exchange" /\ req'[p].in.audience = {}) =>
          req'[p].aud.items = audienceFor(QueryUnescape(req[p].auth.id))'
    BY <1>0, <2>2, <2>6 DEF audienceFor
  <2>8. Path(p)'
    BY <2>2, <2>3, <2>5, <2>7 DEF Path, HasProof
  <2> QED
    BY <1>a, <2>2, <2>8
<1>6. ASSUME NEW p \in Procs, ValidateTokenExchangeRequest(p) PROVE \A q \in Procs : Path(q)'
  <2>1. req[p] \in Working /\ req[p].pc = "admitted" /\ req[p].in.kind = "exchange"
    BY <1>6, Busy DEF ValidateTokenExchangeRequest
  <2>2. PICK s \in Subjects(req[p].in) :
          req' = [req EXCEPT ![p].pc = "granted", ![p].requested = RequestedType(req[p].in),
                    ![p].login = [client |-> Seen(p).id, sub |-> s, scopes |-> Scopes(req[p].in)]]
    BY <1>6 DEF ValidateTokenExchangeRequest
  <2> DEFINE login == [client |-> Seen(p).id, sub |-> s, scopes |-> Scopes(req[p].in)]
             requested == RequestedType(req[p].in)
  <2>20. login.client = Seen(p).id
    OBVIOUS
  <2>21. req' = [req EXCEPT ![p].pc = "granted", ![p].requested = requested, ![p].login = login]
    BY <2>2
  <2> HIDE DEF login, requested
  <2>3. /\ req'[p] = [req[p] EXCEPT !.pc = "granted", !.requested = requested, !.login = login]
        /\ \A q \in Procs \ {p} : req'[q] = req[q]
    BY <2>21 DEF TypeOK
  <2>4. /\ req'[p].pc = "granted" /\ req'[p].in = req[p].in /\ req'[p].aud = req[p].aud
        /\ req'[p].login = login
    BY <2>1, <2>3 DEF Working
  <2>5. login.client = QueryUnescape(req[p].auth.id)
    BY <2>1, <2>20 DEF Seen, Plain
  <2>6. req[p].in.audience = {} => Configured(req[p].aud.items, login.client)
    BY <2>1, <2>5 DEF Path, Configured
  <2>7. req'[p].in.audience = {} => Configured(req[p].aud.items, req[p].login.client)'
    BY <1>0, <2>4, <2>6 DEF Configured, audienceFor
  <2>8. Path(p)'
    BY <2>1, <2>4, <2>7 DEF Path
  <2> QED
    BY <1>a, <2>3, <2>8
<1>7. ASSUME NEW p \in Procs, ResolveLogin(p) PROVE \A q \in Procs : Path(q)'
  <2> DEFINE aud == GetAudience(p, req[p].login.client)
  <2>1. req[p] \in Working /\ req[p].pc = "admitted"
    BY <1>7, Busy DEF ResolveLogin
  <2>2. aud.items = IF audienceFor(req[p].login.client) = {} THEN {req[p].login.client}
                                                            ELSE audienceFor(req[p].login.client)
    BY DEF GetAudience
  <2>3. req' = [req EXCEPT ![p].pc = "granted", ![p].requested = "all", ![p].aud = aud]
    BY <1>7 DEF ResolveLogin
  <2> HIDE DEF aud
  <2>4. /\ req'[p] = [req[p] EXCEPT !.pc = "granted", !.requested = "all", !.aud = aud]
        /\ \A q \in Procs \ {p} : req'[q] = req[q]
    BY <2>3 DEF TypeOK
  <2>5. /\ req'[p].pc = "granted" /\ req'[p].in = req[p].in /\ req'[p].aud = aud
        /\ req'[p].login = req[p].login
    BY <2>1, <2>4 DEF Working
  <2>6. Configured(aud.items, req[p].login.client)
    BY <2>2 DEF Configured
  <2>7. Configured(req[p].aud.items, req[p].login.client)'
    BY <1>0, <2>5, <2>6 DEF Configured, audienceFor
  <2>8. req[p].in.kind = "code" => HasProof(req[p].in)
    BY <2>1 DEF Path, Accepted
  <2>9. Path(p)'
    BY <2>5, <2>7, <2>8 DEF Path, HasProof
  <2> QED
    BY <1>a, <2>4, <2>9
<1>8. ASSUME NEW p \in Procs, StoreAccessToken(p) PROVE \A q \in Procs : Path(q)'
  <2>1. req[p].pc = "granted" /\ (Goto(p, "stored") \/ Answer(p, "tokens"))
    BY <1>8 DEF StoreAccessToken
  <2>2. CASE Goto(p, "stored")
    <3>1. Path(p)' /\ \A q \in Procs \ {p} : req'[q] = req[q]
      BY <1>0, <2>1, <2>2, PathGranted, GotoFields DEF Stages
    <3> QED
      BY <1>a, <3>1
  <2>3. CASE Answer(p, "tokens")
    BY <1>b, <2>1, <2>3 DEF Answers
  <2> QED
    BY <2>1, <2>2, <2>3
<1>9. ASSUME NEW p \in Procs, AppendClient(p) PROVE \A q \in Procs : Path(q)'
  <2>1. req[p].pc \in {"granted", "stored"} /\ Goto(p, "appended")
    BY <1>9 DEF AppendClient
  <2>2. Path(p)' /\ \A q \in Procs \ {p} : req'[q] = req[q]
    BY <1>0, <2>1, PathGranted, GotoFields DEF Stages
  <2> QED
    BY <1>a, <2>2
<1>10. ASSUME NEW p \in Procs, SignIdToken(p) \/ Introspect(p) \/ Userinfo(p)
       PROVE  \A q \in Procs : Path(q)'
  <2>1. /\ req[p].pc # "idle"
        /\ Answer(p, "tokens") \/ Answer(p, "active") \/ Answer(p, "inactive")
    BY <1>10 DEF SignIdToken, Introspect, Userinfo
  <2> QED
    BY <1>b, <2>1 DEF Answers
<1>11. CASE UNCHANGED vars
  BY <1>0, <1>11, PathUnmoved DEF vars
<1> QED
  BY <1>1, <1>2, <1>3, <1>4, <1>5, <1>6, <1>7, <1>8, <1>9, <1>10, <1>11 DEF Next

LEMMA PathInit == Init => \A p \in Procs : Path(p)
<1> SUFFICES ASSUME Init, NEW p \in Procs PROVE Path(p)
  OBVIOUS
<1>1. req[p].pc = "idle"
  BY DEF Init, Idle
<1> QED
  BY <1>1 DEF Path, Accepted

-----------------------------------------------------------------------------
(* The claims.  What ReleaseClaims lets out of the standard ones belongs   *)
(* to the scopes it was asked for, whatever the configuration says.        *)
LEMMA StandardByScope ==
  ASSUME NEW sub, NEW scopes
  PROVE  releasedClaims(sub, scopes) \cap standardClaims \subseteq StandardClaimsOf(scopes)
<1> SUFFICES ASSUME NEW c \in releasedClaims(sub, scopes), c \in standardClaims
             PROVE  c \in StandardClaimsOf(scopes)
  OBVIOUS
<1>1. c \in ReleaseClaims(cfg.personas[sub], scopes) /\ c # "sub"
  BY DEF releasedClaims
<1> QED
  BY <1>1 DEF ReleaseClaims

(* So nothing standard is left of an access token's, whose scopes lack     *)
(* those that have standard claims.                                        *)
LEMMA NoneWithoutUserinfo ==
  ASSUME NEW sub, NEW scopes
  PROVE  releasedClaims(sub, withoutUserinfoScopes(scopes)) \cap standardClaims = {}
<1>1. DOMAIN standardScopeClaims = {"profile", "email", "phone", "address"}
  BY DEF standardScopeClaims
<1>2. withoutUserinfoScopes(scopes) \cap DOMAIN standardScopeClaims = {}
  BY <1>1 DEF withoutUserinfoScopes
<1>3. StandardClaimsOf(withoutUserinfoScopes(scopes)) = {}
  BY <1>2 DEF StandardClaimsOf
<1> QED
  BY <1>3, StandardByScope

(* A token asked for without an audience has the configured one, and so    *)
(* any two of a client's agree.                                            *)
ConfiguredAudiences ==
  \A t \in accessTokens : t.from.audience = {} => Configured(t.aud, t.client)

TokensInv ==
  /\ ConfiguredAudiences
  /\ AccessTokensOmitStandardClaims
  /\ ScopeMapAddsNoStandardClaim
  /\ CodesNeedProof
  /\ IntrospectionIsAuthenticated

LEMMA TokensInit == Init => TokensInv
BY DEF Init, TokensInv, ConfiguredAudiences, AccessTokensOmitStandardClaims,
       ScopeMapAddsNoStandardClaim, CodesNeedProof, IntrospectionIsAuthenticated

(* What access tokens, and what the other answers promise, depends on      *)
(* nothing else but the configuration.                                     *)
LEMMA AccessUnmoved ==
  ASSUME TokensInv, cfg' = cfg, accessTokens' = accessTokens
  PROVE  ConfiguredAudiences' /\ AccessTokensOmitStandardClaims' /\ CodesNeedProof'
BY DEF TokensInv, ConfiguredAudiences, Configured, audienceFor, AccessTokensOmitStandardClaims,
       CodesNeedProof

LEMMA IntrospectionsUnmoved ==
  ASSUME TokensInv, cfg' = cfg, introspections' = introspections
  PROVE  IntrospectionIsAuthenticated'
BY DEF TokensInv, IntrospectionIsAuthenticated, Permissive

LEMMA ClaimsUnmoved ==
  ASSUME TokensInv, UNCHANGED <<idTokens, introspections, userinfos>>
  PROVE  ScopeMapAddsNoStandardClaim'
BY DEF TokensInv, ScopeMapAddsNoStandardClaim

(* A new answer of the three kinds releases what its scopes allow.         *)
LEMMA ClaimsGrow ==
  ASSUME TokensInv, NEW sub, NEW scopes, NEW i,
         i.scopes = scopes, i.claims = releasedClaims(sub, scopes),
         (idTokens \cup introspections \cup userinfos)' \subseteq
           idTokens \cup introspections \cup userinfos \cup {i}
  PROVE  ScopeMapAddsNoStandardClaim'
<1>1. i.claims \cap standardClaims \subseteq StandardClaimsOf(i.scopes)
  BY StandardByScope
<1> QED
  BY <1>1 DEF TokensInv, ScopeMapAddsNoStandardClaim

LEMMA TokensStep ==
  TypeOK /\ (\A p \in Procs : Path(p)) /\ TokensInv /\ [Next]_vars => TokensInv'
<1> SUFFICES ASSUME TypeOK, \A p \in Procs : Path(p), TokensInv, [Next]_vars PROVE TokensInv'
  OBVIOUS
<1>0. cfg' = cfg
  BY ConfigFixed
<1>1. ASSUME NEW p \in Procs, StoreAccessToken(p) PROVE TokensInv'
  <2> DEFINE t == req[p].login
             new == [client |-> t.client, sub |-> t.sub, scopes |-> t.scopes, aud |-> req[p].aud.items,
                     claims |-> releasedClaims(t.sub, withoutUserinfoScopes(t.scopes)),
                     from |-> req[p].in]
  <2>1. /\ accessTokens' = accessTokens \cup {new} /\ req[p].pc = "granted"
        /\ UNCHANGED <<idTokens, introspections, userinfos>>
    BY <1>1 DEF StoreAccessToken
  <2>2. /\ new.client = t.client /\ new.aud = req[p].aud.items /\ new.from = req[p].in
        /\ new.claims = releasedClaims(t.sub, withoutUserinfoScopes(t.scopes))
    OBVIOUS
  <2> HIDE DEF new
  <2>3. new.from.audience = {} => Configured(new.aud, new.client)
    BY <2>1, <2>2 DEF Path
  <2>4. new.claims \cap standardClaims = {}
    BY <2>2, NoneWithoutUserinfo
  <2>5. new.from.kind = "code" => HasProof(new.from)
    BY <2>1, <2>2 DEF Path, Accepted
  <2>6. ConfiguredAudiences'
    BY <1>0, <2>1, <2>3 DEF TokensInv, ConfiguredAudiences, Configured, audienceFor
  <2>7. AccessTokensOmitStandardClaims'
    BY <2>1, <2>4 DEF TokensInv, AccessTokensOmitStandardClaims
  <2>8. CodesNeedProof'
    BY <2>1, <2>5 DEF TokensInv, CodesNeedProof, HasProof
  <2> QED
    BY <1>0, <2>1, <2>6, <2>7, <2>8, IntrospectionsUnmoved, ClaimsUnmoved DEF TokensInv
<1>2. ASSUME NEW p \in Procs, SignIdToken(p) PROVE TokensInv'
  <2> DEFINE t == req[p].login
             r == req[p].aud
             new == [client |-> t.client, asked |-> r.items,
                     aud |-> r.items \cup IF t.client \in r.items THEN {} ELSE {spare[r.array]},
                     scopes |-> t.scopes, claims |-> releasedClaims(t.sub, t.scopes)]
  <2>1. idTokens' = idTokens \cup {new} /\ UNCHANGED <<accessTokens, introspections, userinfos>>
    BY <1>2 DEF SignIdToken
  <2>2. new.scopes = t.scopes /\ new.claims = releasedClaims(t.sub, t.scopes)
    OBVIOUS
  <2> HIDE DEF new
  <2>3. ScopeMapAddsNoStandardClaim'
    BY <2>1, <2>2, ClaimsGrow
  <2> QED
    BY <1>0, <2>1, <2>3, AccessUnmoved, IntrospectionsUnmoved DEF TokensInv
<1>3. ASSUME NEW p \in Procs, Introspect(p) PROVE TokensInv'
  <2> DEFINE t == req[p].login
             by == Seen(p).id
             new == [by |-> by, secret |-> Seen(p).secret, scopes |-> t.scopes,
                     claims |-> releasedClaims(t.sub, t.scopes)]
  <2>1. /\ UNCHANGED <<accessTokens, idTokens, userinfos>>
        /\ req[p].pc = "admitted" /\ req[p].in.kind = "introspect"
        /\ \/ MayIntrospect(by) /\ introspections' = introspections \cup {new}
           \/ introspections' = introspections
    BY <1>3 DEF Introspect
  <2>2. /\ new.by = by /\ new.secret = Seen(p).secret
        /\ new.scopes = t.scopes /\ new.claims = releasedClaims(t.sub, t.scopes)
    OBVIOUS
  <2> HIDE DEF new
  <2>3. CASE introspections' = introspections
    BY <1>0, <2>1, <2>3, AccessUnmoved, IntrospectionsUnmoved, ClaimsUnmoved DEF TokensInv
  <2>4. CASE MayIntrospect(by) /\ introspections' = introspections \cup {new}
    <3>1. AuthorizeClientIDSecret(by, new.secret)
      BY <2>1, <2>2 DEF Path
    <3>2. ~Permissive => new.secret # "" /\ new.secret = cfg.clients[new.by].secret
      BY <2>2, <2>4, <3>1 DEF MayIntrospect, AuthorizeClientIDSecret
    <3>3. IntrospectionIsAuthenticated'
      BY <1>0, <2>4, <3>2 DEF TokensInv, IntrospectionIsAuthenticated, Permissive
    <3>4. ScopeMapAddsNoStandardClaim'
      BY <2>1, <2>2, <2>4, ClaimsGrow
    <3> QED
      BY <1>0, <2>1, <3>3, <3>4, AccessUnmoved DEF TokensInv
  <2> QED
    BY <2>1, <2>3, <2>4
<1>4. ASSUME NEW p \in Procs, Userinfo(p) PROVE TokensInv'
  <2> DEFINE t == req[p].login
             new == [sub |-> t.sub, scopes |-> t.scopes, claims |-> releasedClaims(t.sub, t.scopes)]
  <2>1. /\ UNCHANGED <<accessTokens, idTokens, introspections>>
        /\ userinfos' = userinfos \cup {new} \/ userinfos' = userinfos
    BY <1>4 DEF Userinfo
  <2>2. new.scopes = t.scopes /\ new.claims = releasedClaims(t.sub, t.scopes)
    OBVIOUS
  <2> HIDE DEF new
  <2>3. ScopeMapAddsNoStandardClaim'
    BY <2>1, <2>2, ClaimsGrow
  <2> QED
    BY <1>0, <2>1, <2>3, AccessUnmoved, IntrospectionsUnmoved DEF TokensInv
<1>5. CASE UNCHANGED tokens
  BY <1>0, <1>5, AccessUnmoved, IntrospectionsUnmoved, ClaimsUnmoved DEF TokensInv, tokens
<1>6. ASSUME NEW p \in Procs,
             \/ \E in \in Requests : Arrive(p, in)
             \/ DefaultExchangeAudience(p) \/ ObserveClientPresentation(p)
             \/ Refuse(p) \/ Admit(p)
             \/ RefuseExchange(p) \/ ValidateTokenExchangeRequest(p) \/ ResolveLogin(p)
             \/ AppendClient(p)
      PROVE  UNCHANGED tokens
  BY <1>6 DEF Arrive, DefaultExchangeAudience, ObserveClientPresentation, Refuse, Admit,
              RefuseExchange, ValidateTokenExchangeRequest, ResolveLogin, AppendClient
<1>7. CASE UNCHANGED vars
  BY <1>5, <1>7 DEF vars
<1> QED
  BY <1>1, <1>2, <1>3, <1>4, <1>5, <1>6, <1>7 DEF Next

(* What TypeCorrect, the paths and the tokens come to.                     *)
TokensSafe == (\A p \in Procs : Path(p)) /\ TokensInv

LEMMA TokensHold == Spec => []TokensSafe
<1>1. Init => TokensSafe
  BY PathInit, TokensInit DEF TokensSafe
<1>2. TypeOK /\ TokensSafe /\ [Next]_vars => TokensSafe'
  BY PathStep, TokensStep DEF TokensSafe
<1> QED
  BY <1>1, <1>2, TypeCorrect, PTL DEF Spec

(* A client's tokens have the same audiences whatever grant they come      *)
(* from, with as many requests under way as you like.                      *)
THEOREM AudiencesAgree == Spec => []AudienceParity
<1>1. TokensSafe => AudienceParity
  <2> SUFFICES ASSUME ConfiguredAudiences, NEW t \in accessTokens, NEW u \in accessTokens,
                      t.client = u.client, t.from.audience = {}, u.from.audience = {}
               PROVE  \/ t.aud = u.aud
                      \/ t.aud \subseteq {t.client} /\ u.aud \subseteq {t.client}
    BY DEF TokensSafe, TokensInv, AudienceParity
  <2>1. Configured(t.aud, t.client) /\ Configured(u.aud, t.client)
    BY DEF ConfiguredAudiences
  <2> QED
    BY <2>1 DEF Configured
<1> QED
  BY <1>1, TokensHold, PTL

(* No access token has a standard claim, whatever the personas say and     *)
(* the scopes are mapped to.                                               *)
THEOREM AccessTokensStayLean == Spec => []AccessTokensOmitStandardClaims
<1>1. TokensSafe => AccessTokensOmitStandardClaims
  BY DEF TokensSafe, TokensInv
<1> QED
  BY <1>1, TokensHold, PTL

(* No map of scopes to claims releases a standard one.                     *)
THEOREM ScopeMapIsHarmless == Spec => []ScopeMapAddsNoStandardClaim
<1>1. TokensSafe => ScopeMapAddsNoStandardClaim
  BY DEF TokensSafe, TokensInv
<1> QED
  BY <1>1, TokensHold, PTL

(* A code is worth nothing without PKCE or a secret, registered clients or *)
(* none.                                                                   *)
THEOREM CodesAreProved == Spec => []CodesNeedProof
<1>1. TokensSafe => CodesNeedProof
  BY DEF TokensSafe, TokensInv
<1> QED
  BY <1>1, TokensHold, PTL

(* Only a registered client that has a secret and gave it is told of       *)
(* tokens.                                                                 *)
THEOREM IntrospectionNeedsSecret == Spec => []IntrospectionIsAuthenticated
<1>1. TokensSafe => IntrospectionIsAuthenticated
  BY DEF TokensSafe, TokensInv
<1> QED
  BY <1>1, TokensHold, PTL
============================================================================
