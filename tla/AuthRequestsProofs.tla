-------------------------- MODULE AuthRequestsProofs --------------------------
(***************************************************************************)
(* Proofs about AuthRequests, for every set of personas, every number of   *)
(* requests served at once, every TTL and every bound.                     *)
(*                                                                         *)
(* None of the invariants is inductive on its own, not even the types: the *)
(* subject a redemption works for is a persona only because a code leads   *)
(* to a decided request, and that holds only because the callback worked   *)
(* on a snapshot that was decided and a decision is never taken back.      *)
(***************************************************************************)
EXTENDS AuthRequests, TLAPS

(* Each direction of the index says which entry the other direction has.   *)
CodesLeadBack ==
  \A code \in DOMAIN codes :
    /\ codes[code] \in DOMAIN requests
    /\ requests[codes[code]].code = code
    /\ requests[codes[code]].done
RequestsLeadBack ==
  \A id \in DOMAIN requests :
    requests[id].code # NoCode =>
      /\ requests[id].code \in DOMAIN codes
      /\ codes[requests[id].code] = id

(* A request is done exactly if somebody was chosen for it, who is its     *)
(* subject; what a callback, a redemption or a response says of a login    *)
(* was chosen for it.                                                      *)
Chosen(id, sub) == [id |-> id, sub |-> sub] \in chosen
DoneIsChosen ==
  \A id \in DOMAIN requests :
    /\ requests[id].done => Chosen(id, requests[id].subject)
    /\ ~requests[id].done => \A x \in chosen : x.id # id
WorkIsChosen ==
  \A r \in Reqs :
    req[r].pc \in {"save", "redeem"} => Chosen(req[r].id, req[r].sub)

IInv ==
  /\ TypeOK
  /\ CodesLeadBack /\ RequestsLeadBack
  /\ DoneIsChosen /\ WorkIsChosen
  /\ OnePersonaPerLogin
  /\ AnsweredLoginIsGone

-----------------------------------------------------------------------------
(* Requests in progress.                                                   *)

LEMMA IdleHasNoWork == Idle.pc = "idle"
BY DEF Idle

LEMMA Busy ==
  ASSUME TypeOK, NEW r \in Reqs, req[r].pc # "idle"
  PROVE  req[r] \in Working
BY DEF TypeOK, Idle

(* A request that ends leaves everybody else's work.                       *)
LEMMA FinishKeeps ==
  ASSUME TypeOK, WorkIsChosen, NEW r \in Reqs, Finish(r), chosen \subseteq chosen',
         drawn' \in Nat, drawn <= drawn'
  PROVE  /\ req' \in [Reqs -> Working' \cup {Idle}]
         /\ WorkIsChosen'
<1>1. Working \subseteq Working'
  BY DEF Working, TypeOK
<1>2. req' = [req EXCEPT ![r] = Idle]
  BY DEF Finish
<1>3. req' \in [Reqs -> Working' \cup {Idle}]
  BY <1>1, <1>2 DEF TypeOK
<1>4. ASSUME NEW s \in Reqs, req'[s].pc \in {"save", "redeem"}
      PROVE  Chosen(req[s].id, req[s].sub)'
  <2>1. s # r /\ req'[s] = req[s]
    BY <1>2, <1>4, IdleHasNoWork DEF TypeOK
  <2> QED
    BY <1>4, <2>1 DEF WorkIsChosen, Chosen
<1> QED
  BY <1>3, <1>4 DEF WorkIsChosen

(* So does one that begins, on a login in its domain.                      *)
LEMMA BeginKeeps ==
  ASSUME TypeOK, WorkIsChosen, NEW r \in Reqs,
         NEW pc \in {"hinted", "save", "redeem"}, NEW id \in 1..drawn, NEW sub \in Subs,
         Begin(r, pc, id, sub), UNCHANGED <<drawn, chosen>>,
         pc # "hinted" => Chosen(id, sub)
  PROVE  /\ req' \in [Reqs -> Working' \cup {Idle}]
         /\ WorkIsChosen'
<1> DEFINE w == [pc |-> pc, id |-> id, sub |-> sub]
<1>1. w \in Working /\ Working' = Working
  BY DEF Working
<1>2. req' = [req EXCEPT ![r] = w]
  BY DEF Begin
<1>3. req' \in [Reqs -> Working' \cup {Idle}]
  BY <1>1, <1>2 DEF TypeOK
<1>4. ASSUME NEW s \in Reqs, req'[s].pc \in {"save", "redeem"}
      PROVE  Chosen(req[s].id, req[s].sub)'
  <2>1. CASE s = r
    BY <1>2, <1>4, <2>1 DEF TypeOK, Chosen
  <2>2. CASE s # r
    BY <1>2, <1>4, <2>2 DEF TypeOK, WorkIsChosen, Chosen
  <2> QED
    BY <2>1, <2>2
<1> QED
  BY <1>3, <1>4 DEF WorkIsChosen

(* Requests that nothing happens to keep their work.                       *)
LEMMA WorkKept ==
  ASSUME TypeOK, WorkIsChosen, UNCHANGED req, chosen \subseteq chosen',
         drawn' \in Nat, drawn <= drawn'
  PROVE  /\ req' \in [Reqs -> Working' \cup {Idle}]
         /\ WorkIsChosen'
<1>1. Working \subseteq Working'
  BY DEF Working, TypeOK
<1> QED
  BY <1>1 DEF TypeOK, WorkIsChosen, Chosen

-----------------------------------------------------------------------------
LEMMA InvInit == Init => IInv
BY DEF Init, IInv, TypeOK, Empty, Idle, CodesLeadBack, RequestsLeadBack, DoneIsChosen,
       WorkIsChosen, OnePersonaPerLogin, AnsweredLoginIsGone

(* The drawn id is new to every map, so the new request has no code, no    *)
(* persona and no answer; the evicted ones take exactly their codes away.  *)
LEMMA CreateKeeps ==
  ASSUME IInv, NEW hint \in Subs \cup {NoHint}, CreateAuthRequest(hint)
  PROVE  IInv'
<1> USE DEF IInv
<1> DEFINE new == [at |-> now, hint |-> hint, done |-> FALSE, subject |-> NoHint, code |-> NoCode]
           kept == DOMAIN requests \ Abandoned
           fresh == drawn + 1
<1>1. /\ drawn' = fresh /\ fresh \in Nat /\ fresh \notin 1..drawn
      /\ UNCHANGED <<now, req, chosen, answers>>
  BY DEF CreateAuthRequest, TypeOK
<1>2. /\ DOMAIN requests' = kept \cup {fresh}
      /\ requests'[fresh] = new
      /\ \A id \in kept : id # fresh /\ requests'[id] = requests[id]
  <2>1. kept \subseteq 1..drawn
    BY DEF TypeOK
  <2>2. requests' = Put(Without(requests, Abandoned), fresh, new)
    BY DEF CreateAuthRequest
  <2> QED
    BY <1>1, <2>1, <2>2 DEF Put, Without
<1>3. /\ DOMAIN codes' = DOMAIN codes \ {requests[id].code : id \in Abandoned}
      /\ \A code \in DOMAIN codes' : codes'[code] = codes[code]
  BY DEF CreateAuthRequest, Without
<1>4. TypeOK'
  <2>1. requests' \in [DOMAIN requests' -> Request'] /\ DOMAIN requests' \subseteq 1..drawn'
    <3>1. Request \subseteq Request' /\ new \in Request'
      BY <1>1 DEF Request, TypeOK, NoCode
    <3>2. \A id \in DOMAIN requests' : requests'[id] \in Request'
      BY <1>2, <3>1 DEF TypeOK
    <3>3. requests' = [id \in DOMAIN requests' |-> requests'[id]]
      BY DEF CreateAuthRequest, Put
    <3> QED
      BY <1>1, <1>2, <3>2, <3>3 DEF TypeOK
  <2>2. codes' \in [DOMAIN codes' -> 1..drawn'] /\ DOMAIN codes' \subseteq 1..drawn'
    BY <1>1, <1>3 DEF TypeOK, CreateAuthRequest, Without
  <2>3. req' \in [Reqs -> Working' \cup {Idle}]
    BY <1>1, WorkKept DEF TypeOK
  <2> QED
    BY <1>1, <2>1, <2>2, <2>3 DEF TypeOK
<1>5. CodesLeadBack'
  <2> SUFFICES ASSUME NEW code \in DOMAIN codes'
               PROVE  /\ codes'[code] \in DOMAIN requests'
                      /\ requests'[codes'[code]].code = code
                      /\ requests'[codes'[code]].done
    BY DEF CodesLeadBack
  <2>1. /\ codes'[code] = codes[code] /\ codes[code] \in DOMAIN requests
        /\ requests[codes[code]].code = code /\ requests[codes[code]].done
    BY <1>3 DEF CodesLeadBack
  <2>2. codes[code] \notin Abandoned
    BY <1>3, <2>1
  <2> QED
    BY <1>2, <2>1, <2>2
<1>6. RequestsLeadBack'
  <2> SUFFICES ASSUME NEW id \in DOMAIN requests', requests'[id].code # NoCode
               PROVE  /\ requests'[id].code \in DOMAIN codes'
                      /\ codes'[requests'[id].code] = id
    BY DEF RequestsLeadBack
  <2>1. id \in kept /\ requests'[id] = requests[id]
    BY <1>2
  <2>2. requests[id].code \in DOMAIN codes /\ codes[requests[id].code] = id
    BY <2>1 DEF RequestsLeadBack
  <2>3. ASSUME NEW other \in Abandoned, requests[other].code = requests[id].code PROVE FALSE
    <3>1. other \in DOMAIN requests /\ requests[other].code # NoCode
      BY <2>1, <2>3 DEF Abandoned
    <3>2. codes[requests[other].code] = other
      BY <3>1 DEF RequestsLeadBack
    <3> QED
      BY <2>1, <2>2, <2>3, <3>2
  <2> QED
    BY <1>3, <2>1, <2>2, <2>3
<1>7. DoneIsChosen'
  <2>1. \A x \in chosen : x.id # fresh
    BY <1>1 DEF TypeOK
  <2> QED
    BY <1>1, <1>2, <2>1 DEF DoneIsChosen, Chosen
<1>8. WorkIsChosen' /\ OnePersonaPerLogin'
  BY <1>1 DEF WorkIsChosen, OnePersonaPerLogin, Chosen
<1>9. AnsweredLoginIsGone'
  <2>1. \A a \in answers : a.id # fresh
    BY <1>1 DEF TypeOK
  <2> QED
    BY <1>1, <1>2, <2>1 DEF AnsweredLoginIsGone
<1> QED
  BY <1>4, <1>5, <1>6, <1>7, <1>8, <1>9

(* A completion decides a request nobody was chosen for.  What becomes of  *)
(* req is the caller's affair.                                             *)
LEMMA CompleteKeeps ==
  ASSUME IInv, NEW id \in DOMAIN requests, NEW sub \in Subs, Complete(id, sub),
         req' \in [Reqs -> Working' \cup {Idle}], WorkIsChosen'
  PROVE  IInv'
<1> USE DEF IInv
<1>1. /\ ~requests[id].done
      /\ chosen' = chosen \cup {[id |-> id, sub |-> sub]}
      /\ UNCHANGED <<now, drawn, codes, answers>>
  BY DEF Complete, Pending
<1>2. /\ DOMAIN requests' = DOMAIN requests
      /\ requests'[id] = [requests[id] EXCEPT !.done = TRUE, !.subject = sub]
      /\ \A x \in DOMAIN requests : x # id => requests'[x] = requests[x]
  BY DEF Complete, TypeOK
<1>3. /\ requests[id] \in Request /\ id \in 1..drawn
      /\ requests'[id].done /\ requests'[id].subject = sub /\ requests'[id].code = requests[id].code
      /\ requests'[id] \in Request
  <2>1. requests[id] \in Request /\ id \in 1..drawn
    BY DEF TypeOK
  <2> QED
    BY <1>2, <2>1 DEF Request
<1>4. TypeOK'
  <2>1. requests' \in [DOMAIN requests' -> Request']
    <3>1. Request' = Request
      BY <1>1 DEF Request
    <3> QED
      BY <1>3, <3>1 DEF Complete, TypeOK
  <2> QED
    BY <1>1, <1>2, <1>3, <2>1 DEF TypeOK
<1>5. CodesLeadBack' /\ RequestsLeadBack'
  BY <1>1, <1>2, <1>3 DEF CodesLeadBack, RequestsLeadBack
<1>6. DoneIsChosen'
  <2> SUFFICES ASSUME NEW x \in DOMAIN requests
               PROVE  /\ requests'[x].done => Chosen(x, requests[x].subject)'
                      /\ ~requests'[x].done => \A y \in chosen' : y.id # x
    BY <1>2 DEF DoneIsChosen
  <2>1. CASE x = id
    BY <1>1, <1>3, <2>1 DEF Chosen
  <2>2. CASE x # id
    <3>1. requests'[x] = requests[x]
      BY <1>2, <2>2
    <3>2. [id |-> id, sub |-> sub].id # x
      BY <2>2
    <3> QED
      BY <1>1, <3>1, <3>2 DEF DoneIsChosen, Chosen
  <2> QED
    BY <2>1, <2>2
<1>7. OnePersonaPerLogin'
  <2>1. \A x \in chosen : x.id # id
    BY <1>1 DEF DoneIsChosen
  <2> QED
    BY <1>1, <2>1 DEF OnePersonaPerLogin
<1>8. AnsweredLoginIsGone'
  BY <1>1, <1>2 DEF AnsweredLoginIsGone
<1> QED
  BY <1>4, <1>5, <1>6, <1>7, <1>8

(* A step that only starts or drops work disturbs nothing else.            *)
LEMMA OnlyWorkMoves ==
  ASSUME IInv, UNCHANGED <<now, drawn, requests, codes, chosen, answers>>,
         req' \in [Reqs -> Working' \cup {Idle}], WorkIsChosen'
  PROVE  IInv'
BY DEF IInv, TypeOK, Request, CodesLeadBack, RequestsLeadBack, DoneIsChosen, Chosen,
       OnePersonaPerLogin, AnsweredLoginIsGone

(* A fresh code replaces the code the request had: it was the request's    *)
(* only one, so none is left that leads to a request with another.         *)
LEMMA SaveKeeps ==
  ASSUME IInv, NEW r \in Reqs, SaveAuthCode(r) PROVE IInv'
<1> USE DEF IInv
<1> DEFINE id == req[r].id
           fresh == drawn + 1
<1>1. /\ drawn' = fresh /\ fresh \in Nat /\ fresh \notin 1..drawn /\ fresh # NoCode
      /\ UNCHANGED <<now, chosen, answers>>
  BY DEF SaveAuthCode, TypeOK, NoCode
<1>2. id \in 1..drawn /\ Chosen(id, req[r].sub)
  BY Busy DEF SaveAuthCode, Working, WorkIsChosen
<1>3. req' \in [Reqs -> Working' \cup {Idle}] /\ WorkIsChosen'
  BY <1>1, FinishKeeps DEF SaveAuthCode, TypeOK
<1>4. Request \subseteq Request'
  BY <1>1 DEF Request, TypeOK
<1>5. OnePersonaPerLogin'
  BY <1>1 DEF OnePersonaPerLogin
<1>6. CASE id \notin DOMAIN requests
  <2>1. UNCHANGED <<requests, codes>>
    BY <1>6 DEF SaveAuthCode
  <2>2. TypeOK'
    BY <1>1, <1>3, <1>4, <2>1 DEF TypeOK
  <2>3. CodesLeadBack' /\ RequestsLeadBack' /\ DoneIsChosen' /\ AnsweredLoginIsGone'
    BY <1>1, <2>1 DEF CodesLeadBack, RequestsLeadBack, DoneIsChosen, AnsweredLoginIsGone, Chosen
  <2> QED
    BY <1>3, <1>5, <2>2, <2>3
<1>7. CASE id \in DOMAIN requests
  <2> DEFINE old == requests[id].code
  <2> HIDE DEF id, fresh
  <2>1. /\ requests' = [requests EXCEPT ![id].code = fresh]
        /\ codes' = Put(Without(codes, {old}), fresh, id)
    BY <1>7 DEF SaveAuthCode, id, fresh
  <2>2. requests[id] \in Request /\ requests[id].done
    BY <1>2, <1>7 DEF TypeOK, DoneIsChosen, Chosen
  <2>3. /\ DOMAIN requests' = DOMAIN requests
        /\ requests'[id] = [requests[id] EXCEPT !.code = fresh]
        /\ \A x \in DOMAIN requests : x # id => requests'[x] = requests[x]
    BY <1>7, <2>1 DEF TypeOK
  <2>4. /\ requests'[id].code = fresh /\ requests'[id].done
        /\ requests'[id].subject = requests[id].subject
        /\ requests'[id] \in Request'
    BY <1>1, <2>2, <2>3 DEF Request
  <2>5. /\ DOMAIN codes' = (DOMAIN codes \ {old}) \cup {fresh}
        /\ codes'[fresh] = id /\ fresh \notin DOMAIN codes
        /\ \A code \in DOMAIN codes' : code # fresh => codes'[code] = codes[code]
    BY <1>1, <2>1 DEF Put, Without, TypeOK
  <2>6. TypeOK'
    <3>1. requests' \in [DOMAIN requests' -> Request']
      <4>1. \A x \in DOMAIN requests' : requests'[x] \in Request'
        BY <1>4, <2>3, <2>4 DEF TypeOK
      <4> QED
        BY <2>1, <4>1 DEF TypeOK
    <3>2. codes' \in [DOMAIN codes' -> 1..drawn']
      <4>1. id \in 1..drawn' /\ \A code \in DOMAIN codes : codes[code] \in 1..drawn'
        <5>1. 1..drawn \subseteq 1..drawn'
          BY <1>1 DEF TypeOK, fresh
        <5> QED
          BY <1>2, <5>1 DEF TypeOK, id
      <4>2. \A code \in DOMAIN codes' : codes'[code] \in 1..drawn'
        BY <2>5, <4>1
      <4> QED
        BY <2>1, <4>2 DEF Put
    <3> QED
      BY <1>1, <1>3, <2>3, <2>5, <3>1, <3>2 DEF TypeOK
  <2>7. CodesLeadBack'
    <3> SUFFICES ASSUME NEW code \in DOMAIN codes'
                 PROVE  /\ codes'[code] \in DOMAIN requests'
                        /\ requests'[codes'[code]].code = code
                        /\ requests'[codes'[code]].done
      BY DEF CodesLeadBack
    <3>1. CASE code = fresh
      BY <1>7, <2>3, <2>4, <2>5, <3>1
    <3>2. CASE code # fresh
      <4>1. codes'[code] = codes[code] /\ code \in DOMAIN codes /\ code # old
        BY <2>5, <3>2
      <4>2. codes[code] # id
        BY <4>1 DEF CodesLeadBack
      <4> QED
        BY <2>3, <4>1, <4>2 DEF CodesLeadBack
    <3> QED
      BY <3>1, <3>2
  <2>8. RequestsLeadBack'
    <3> SUFFICES ASSUME NEW x \in DOMAIN requests', requests'[x].code # NoCode
                 PROVE  /\ requests'[x].code \in DOMAIN codes'
                        /\ codes'[requests'[x].code] = x
      BY DEF RequestsLeadBack
    <3>1. CASE x = id
      BY <2>4, <2>5, <3>1
    <3>2. CASE x # id
      <4>1. requests'[x] = requests[x] /\ x \in DOMAIN requests
        BY <2>3, <3>2
      <4>2. requests[x].code \in DOMAIN codes /\ codes[requests[x].code] = x
        BY <4>1 DEF RequestsLeadBack
      <4>3. requests[x].code # old
        BY <1>7, <3>2, <4>1, <4>2 DEF RequestsLeadBack
      <4> QED
        BY <2>5, <4>1, <4>2, <4>3
    <3> QED
      BY <3>1, <3>2
  <2>9. DoneIsChosen' /\ AnsweredLoginIsGone'
    BY <1>1, <2>2, <2>3, <2>4 DEF DoneIsChosen, AnsweredLoginIsGone, Chosen
  <2> QED
    BY <1>3, <1>5, <2>6, <2>7, <2>8, <2>9
<1> QED
  BY <1>6, <1>7

(* The answered request goes with its one code.                            *)
LEMMA AnswerKeeps ==
  ASSUME IInv, NEW r \in Reqs, RedeemAnswer(r) PROVE IInv'
<1> USE DEF IInv
<1> DEFINE id == req[r].id
           sub == req[r].sub
<1>1. /\ answers' = answers \cup {[id |-> id, sub |-> sub, by |-> r]}
      /\ UNCHANGED <<now, drawn, chosen>>
  BY DEF RedeemAnswer
<1>2. id \in 1..drawn /\ sub \in Subs /\ Chosen(id, sub)
  BY Busy DEF RedeemAnswer, Working, WorkIsChosen
<1>3. req' \in [Reqs -> Working' \cup {Idle}] /\ WorkIsChosen'
  BY <1>1, FinishKeeps DEF RedeemAnswer, TypeOK
<1>4. /\ DOMAIN requests' = DOMAIN requests \ {id}
      /\ \A x \in DOMAIN requests' : requests'[x] = requests[x]
      /\ requests' = [x \in DOMAIN requests' |-> requests[x]]
  BY DEF RedeemAnswer, DeleteAuthRequest, Without
<1>5. /\ DOMAIN codes' = IF id \in DOMAIN requests THEN DOMAIN codes \ {requests[id].code}
                                                   ELSE DOMAIN codes
      /\ \A code \in DOMAIN codes' : codes'[code] = codes[code]
      /\ codes' = [code \in DOMAIN codes' |-> codes[code]]
  BY DEF RedeemAnswer, DeleteAuthRequest, Without, TypeOK
<1> HIDE DEF id, sub
<1>6. TypeOK'
  <2>1. Request' = Request
    BY <1>1 DEF Request
  <2> QED
    BY <1>1, <1>2, <1>3, <1>4, <1>5, <2>1 DEF TypeOK
<1>7. CodesLeadBack'
  BY <1>4, <1>5 DEF CodesLeadBack
<1>8. RequestsLeadBack'
  <2> SUFFICES ASSUME NEW x \in DOMAIN requests', requests'[x].code # NoCode
               PROVE  /\ requests'[x].code \in DOMAIN codes'
                      /\ codes'[requests'[x].code] = x
    BY DEF RequestsLeadBack
  <2>1. x \in DOMAIN requests /\ x # id /\ requests'[x] = requests[x]
    BY <1>4
  <2>2. requests[x].code \in DOMAIN codes /\ codes[requests[x].code] = x
    BY <2>1 DEF RequestsLeadBack
  <2>3. id \in DOMAIN requests => requests[id].code # requests[x].code
    BY <2>1, <2>2 DEF RequestsLeadBack
  <2> QED
    BY <1>5, <2>1, <2>2, <2>3
<1>9. DoneIsChosen'
  BY <1>1, <1>4 DEF DoneIsChosen, Chosen
<1>10. OnePersonaPerLogin' /\ AnsweredLoginIsGone'
  BY <1>1, <1>2, <1>4 DEF OnePersonaPerLogin, AnsweredLoginIsGone, Chosen
<1> QED
  BY <1>3, <1>6, <1>7, <1>8, <1>9, <1>10

-----------------------------------------------------------------------------
LEMMA InvStep == IInv /\ [Next]_vars => IInv'
<1> SUFFICES ASSUME IInv, [Next]_vars PROVE IInv'
  OBVIOUS
<1>0. TypeOK /\ WorkIsChosen /\ drawn \in Nat /\ drawn <= drawn
  BY DEF IInv, TypeOK
<1>1. ASSUME NEW hint \in Subs \cup {NoHint}, CreateAuthRequest(hint) PROVE IInv'
  BY <1>1, CreateKeeps
<1>2. ASSUME NEW id \in DOMAIN requests, NEW sub \in Subs, PostSelect(id, sub) PROVE IInv'
  <2>1. Complete(id, sub) /\ UNCHANGED <<req, drawn>> /\ chosen \subseteq chosen'
    BY <1>2 DEF PostSelect, Complete
  <2> QED
    BY <1>0, <2>1, CompleteKeeps, WorkKept
<1>3. ASSUME NEW r \in Reqs, NEW id \in DOMAIN requests, GetLogin(r, id) PROVE IInv'
  <2>1. id \in 1..drawn /\ requests[id].hint \in Subs
    BY <1>0, <1>3 DEF GetLogin, TypeOK, Request
  <2> QED
    BY <1>0, <1>3, <2>1, BeginKeeps, OnlyWorkMoves DEF GetLogin
<1>4. ASSUME NEW r \in Reqs, NEW id \in DOMAIN requests, CallbackBegin(r, id) PROVE IInv'
  <2>1. Chosen(id, requests[id].subject)
    BY <1>4 DEF IInv, DoneIsChosen, CallbackBegin
  <2>2. id \in 1..drawn /\ requests[id].subject \in Subs
    BY <1>0, <2>1 DEF TypeOK, Chosen
  <2> QED
    BY <1>0, <1>4, <2>1, <2>2, BeginKeeps, OnlyWorkMoves DEF CallbackBegin
<1>5. ASSUME NEW r \in Reqs, AutoComplete(r) PROVE IInv'
  <2>1. req[r] \in Working /\ Finish(r)
    BY <1>0, <1>5, Busy DEF AutoComplete
  <2>2. CASE Pending(req[r].id)
    <3>1. req[r].id \in DOMAIN requests /\ req[r].sub \in Subs /\ Complete(req[r].id, req[r].sub)
      BY <1>5, <2>1, <2>2 DEF AutoComplete, Pending, Working
    <3>2. drawn' = drawn /\ chosen \subseteq chosen'
      BY <3>1 DEF Complete
    <3> QED
      BY <1>0, <2>1, <3>1, <3>2, FinishKeeps, CompleteKeeps
  <2>3. CASE ~Pending(req[r].id)
    BY <1>0, <1>5, <2>1, <2>3, FinishKeeps, OnlyWorkMoves DEF AutoComplete
  <2> QED
    BY <2>2, <2>3
<1>6. ASSUME NEW r \in Reqs, SaveAuthCode(r) PROVE IInv'
  BY <1>6, SaveKeeps
<1>7. ASSUME NEW r \in Reqs, NEW code \in DOMAIN codes, RedeemBegin(r, code) PROVE IInv'
  <2> DEFINE id == codes[code]
  <2>1. id \in DOMAIN requests /\ Chosen(id, requests[id].subject)
    BY DEF IInv, CodesLeadBack, DoneIsChosen
  <2>2. id \in 1..drawn /\ requests[id].subject \in Subs
    BY <1>0, <2>1 DEF TypeOK, Chosen
  <2> QED
    BY <1>0, <1>7, <2>1, <2>2, BeginKeeps, OnlyWorkMoves DEF RedeemBegin
<1>8. ASSUME NEW r \in Reqs, RedeemReject(r) PROVE IInv'
  BY <1>0, <1>8, FinishKeeps, OnlyWorkMoves DEF RedeemReject
<1>9. ASSUME NEW r \in Reqs, RedeemAnswer(r) PROVE IInv'
  BY <1>9, AnswerKeeps
<1>10. CASE Tick
  <2>1. now \in Nat /\ now' = now + 1 /\ UNCHANGED <<drawn, requests, codes, req, chosen, answers>>
    BY <1>10 DEF Tick, IInv, TypeOK
  <2>2. Request \subseteq Request' /\ Working' = Working
    BY <2>1 DEF Request, Working
  <2>3. TypeOK'
    BY <1>0, <2>1, <2>2 DEF TypeOK
  <2> QED
    BY <2>1, <2>3 DEF IInv, CodesLeadBack, RequestsLeadBack, DoneIsChosen, Chosen, WorkIsChosen,
                      OnePersonaPerLogin, AnsweredLoginIsGone
<1>11. CASE Restart
  BY <1>0, <1>11 DEF Restart, IInv, TypeOK, Empty, Idle, CodesLeadBack, RequestsLeadBack,
     DoneIsChosen, WorkIsChosen, OnePersonaPerLogin, AnsweredLoginIsGone
<1>12. CASE UNCHANGED vars
  BY <1>0, <1>12, WorkKept, OnlyWorkMoves DEF vars
<1> QED
  BY <1>1, <1>2, <1>3, <1>4, <1>5, <1>6, <1>7, <1>8, <1>9, <1>10, <1>11, <1>12 DEF Next

LEMMA Inductive == Spec => []IInv
BY InvInit, InvStep, PTL DEF Spec

-----------------------------------------------------------------------------
(* Every variable keeps its type; in particular a code, a callback and a   *)
(* token response are always for a persona, never for a subject that was   *)
(* not chosen yet (storage.go:131-142, 277-281).                           *)
THEOREM TypeCorrect == Spec => []TypeOK
<1>1. IInv => TypeOK
  BY DEF IInv
<1> QED
  BY <1>1, Inductive, PTL

(* s.codes and s.authRequests index each other exactly, whatever reloads,  *)
(* redemptions and evictions overlap (storage.go:198-211,277-281,285-295). *)
THEOREM IndexIsExact == Spec => []CodesIndexRequests
<1>1. IInv => CodesIndexRequests
  BY DEF IInv, CodesLeadBack, RequestsLeadBack, CodesIndexRequests
<1> QED
  BY <1>1, Inductive, PTL

(* The first completion of a login decides its persona for good, and every *)
(* token response of the login names that persona (storage.go:131-142,     *)
(* login.go:139-146).                                                      *)
THEOREM LoginsHaveOnePersona == Spec => []OnePersonaPerLogin
<1>1. IInv => OnePersonaPerLogin
  BY DEF IInv
<1> QED
  BY <1>1, Inductive, PTL

(* An answered login never comes back to the map (storage.go:285-295).     *)
THEOREM AnsweredLoginsStayGone == Spec => []AnsweredLoginIsGone
<1>1. IInv => AnsweredLoginIsGone
  BY DEF IInv
<1> QED
  BY <1>1, Inductive, PTL

(* No flow leaves the map before it is older than the TTL unless it was    *)
(* answered: one flow's eviction never costs another its login             *)
(* (storage.go:23-28,199-209).                                             *)
THEOREM FlowsSurvive == Spec => YoungFlowsSurvive
<1> DEFINE Survive ==
      ~Restart => \A id \in DOMAIN requests \ DOMAIN requests' :
                    \/ now - requests[id].at > TTL
                    \/ \E a \in answers' : a.id = id
<1>1. [Next]_vars => [Survive]_vars
  <2> SUFFICES ASSUME Next, ~Restart, NEW id \in DOMAIN requests \ DOMAIN requests'
               PROVE  \/ now - requests[id].at > TTL
                      \/ \E a \in answers' : a.id = id
    OBVIOUS
  <2>1. ASSUME NEW hint \in Subs \cup {NoHint}, CreateAuthRequest(hint)
        PROVE  now - requests[id].at > TTL
    BY <2>1 DEF CreateAuthRequest, Put, Without, Abandoned
  <2>2. ASSUME NEW x, NEW sub, Complete(x, sub) PROVE FALSE
    BY <2>2 DEF Complete
  <2>3. ASSUME NEW r \in Reqs, SaveAuthCode(r) PROVE FALSE
    BY <2>3 DEF SaveAuthCode
  <2>4. ASSUME NEW r \in Reqs, RedeemAnswer(r) PROVE \E a \in answers' : a.id = id
    <3>1. id = req[r].id
      BY <2>4 DEF RedeemAnswer, DeleteAuthRequest, Without
    <3>2. [id |-> id, sub |-> req[r].sub, by |-> r] \in answers'
      BY <2>4, <3>1 DEF RedeemAnswer
    <3> QED
      BY <3>2
  <2>5. requests' # requests
    OBVIOUS
  <2> QED
    BY <2>1, <2>2, <2>3, <2>4, <2>5
    DEF Next, PostSelect, GetLogin, CallbackBegin, AutoComplete, RedeemBegin, RedeemReject, Tick
<1> QED
  BY <1>1, PTL DEF Spec, YoungFlowsSurvive
===============================================================================
