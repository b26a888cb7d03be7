--------------------------- MODULE DeviceFlowProofs ---------------------------
(***************************************************************************)
(* Proofs about DeviceFlow, for every lifetime, every poll interval within *)
(* the grace, and any number of devices, people, user codes and personas.  *)
(*                                                                         *)
(* IInv says how the five maps agree: a stored request with its device and *)
(* the verdict, a user code with a request, an open page with the user     *)
(* code it posts, and an answer with what the next poll would be told.     *)
(* What pruning and restarts took from the maps is accounted for by        *)
(* PrunedIsGone, and the grace matters in Punctuality: a device that polls *)
(* in time and has no answer is polling within the grace.                  *)
(***************************************************************************)
EXTENDS DeviceFlow, FiniteSetTheorems, TLAPS

Gone(x) == devices[x].lost \/ now > devices[x].expires + Grace

RequestsMatch ==
  \A x \in DOMAIN requests :
    /\ requests[x].client = devices[x].client
    /\ requests[x].expires = devices[x].expires
    /\ ~devices[x].lost

Decided(q, v) ==
  \/ ~q.done /\ ~q.denied /\ v = "pending"
  \/ q.done /\ ~q.denied /\ v = q.subject /\ v \in Subs
  \/ ~q.done /\ q.denied /\ v = "denied"
Decisions == \A x \in DOMAIN requests : Decided(requests[x], verdict[x])

UnusedCodes ==
  \A x \in DeviceCodes :
    /\ x \in DOMAIN devices <=> verdict[x] # "unknown"
    /\ x \notin DOMAIN devices => outcome[x] = "none"

PrunedIsGone == \A x \in DOMAIN devices \ DOMAIN requests : Gone(x)

RepliesStand ==
  \A x \in DOMAIN requests :
    outcome[x] # "none" => Reply(x, requests[x].client) = outcome[x]

PagesStand ==
  \A b \in Browsers :
    pages[b].open /\ pages[b].shown \in DOMAIN requests =>
      /\ pages[b].key \in DOMAIN userCodes
      /\ userCodes[pages[b].key] = pages[b].shown

Punctuality ==
  \A x \in DOMAIN devices :
    /\ devices[x].punctual => ~devices[x].lost /\ now <= devices[x].due
    /\ outcome[x] = "none" => devices[x].due <= devices[x].expires + Interval

IInv ==
  /\ TypeOK
  /\ UserCodesResolve
  /\ RequestsMatch /\ Decisions /\ UnusedCodes /\ PrunedIsGone
  /\ RepliesStand /\ TokensAsApproved /\ PagesStand /\ Punctuality

-----------------------------------------------------------------------------
(* The types, variable by variable.                                        *)

Stored == [client : Clients, expires : Nat, done : BOOLEAN, denied : BOOLEAN,
           subject : {"nobody"} \cup Subs]
Device == [client : Clients, expires : Nat, due : Nat, punctual : BOOLEAN, lost : BOOLEAN]

LEMMA Types ==
  ASSUME TypeOK
  PROVE  /\ now \in Nat /\ Lifetime \in Nat /\ Interval \in Nat /\ Grace \in Nat
         /\ DOMAIN devices \subseteq DeviceCodes
         /\ devices \in [DOMAIN devices -> Device]
         /\ \A x \in DOMAIN devices : devices[x] \in Device
         /\ DOMAIN requests \subseteq DOMAIN devices
         /\ requests \in [DOMAIN requests -> Stored]
         /\ \A x \in DOMAIN requests : requests[x] \in Stored
         /\ DOMAIN userCodes \subseteq UserCodes
         /\ userCodes \in [DOMAIN userCodes -> DOMAIN devices]
         /\ \A b \in Browsers : pages[b].open \in BOOLEAN
         /\ \A b \in Browsers : pages[b].open =>
              pages[b].key \in UserCodes /\ pages[b].shown \in DOMAIN devices
         /\ \A h \in handed : h.code \in DOMAIN devices /\ h.sub \in Subs
<1>1. \A b \in Browsers : pages[b] = Closed \/
        pages[b] \in [open : {TRUE}, key : UserCodes, shown : DOMAIN devices]
  BY DEF TypeOK
<1>2. Closed.open = FALSE
  BY DEF Closed
<1>3. /\ \A b \in Browsers : pages[b].open \in BOOLEAN
      /\ \A b \in Browsers : pages[b].open =>
           pages[b].key \in UserCodes /\ pages[b].shown \in DOMAIN devices
  BY <1>1, <1>2
<1>4. DOMAIN devices \subseteq DeviceCodes
  BY BoundsAssumption DEF TypeOK, DeviceCodes
<1> QED
  BY <1>3, <1>4, TimesAssumption DEF TypeOK, Stored, Device

(* The next device code is the first that no device has.                   *)
LEMMA NextCode ==
  ASSUME TypeOK
  PROVE  /\ Cardinality(DOMAIN devices) + 1 \notin DOMAIN devices
         /\ Cardinality(DOMAIN devices) + 1 \in DeviceCodes =>
              \E n \in 0..MaxDevices :
                DOMAIN devices \cup {Cardinality(DOMAIN devices) + 1} = 1..n
<1>1. PICK n \in 0..MaxDevices : DOMAIN devices = 1..n
  BY DEF TypeOK
<1>2. Cardinality(1..n) = n
  <2>1. n \in Int /\ 1 \in Int
    BY <1>1, BoundsAssumption
  <2>2. Cardinality(1..n) = IF 1 > n THEN 0 ELSE n - 1 + 1
    BY <2>1, FS_Interval
  <2> QED
    BY <1>1, <2>1, <2>2, BoundsAssumption
<1>3. n + 1 \in DeviceCodes => 1..n \cup {n + 1} = 1..(n + 1) /\ n + 1 \in 0..MaxDevices
  BY BoundsAssumption DEF DeviceCodes
<1> QED
  BY <1>1, <1>2, <1>3, BoundsAssumption

-----------------------------------------------------------------------------
LEMMA InvInit == Init => IInv
<1> SUFFICES ASSUME Init PROVE IInv
  OBVIOUS
<1>1. DOMAIN devices = 1..0 /\ DOMAIN requests = {} /\ DOMAIN userCodes = {}
  BY DEF Init, Empty
<1>2. 0 \in 0..MaxDevices
  BY BoundsAssumption
<1>3. TypeOK
  BY <1>1, <1>2 DEF Init, TypeOK, Empty, Closed
<1>4. UnusedCodes
  BY <1>1 DEF Init, UnusedCodes
<1>5. PagesStand
  BY <1>1 DEF Init, PagesStand, Closed
<1> QED
  BY <1>1, <1>3, <1>4, <1>5
  DEF Init, IInv, UserCodesResolve, RequestsMatch, Decisions, PrunedIsGone, RepliesStand,
      TokensAsApproved, Punctuality

-----------------------------------------------------------------------------
(* What a new authorization finds: the requests that are kept are those    *)
(* their devices may still hear of, and a kept user code is the code of a  *)
(* kept request.                                                           *)
LEMMA PruningFacts ==
  ASSUME IInv
  PROVE  /\ Kept \subseteq DOMAIN requests /\ KeptUserCodes \subseteq DOMAIN userCodes
         /\ \A k \in KeptUserCodes : userCodes[k] \in Kept
         /\ \A x \in DOMAIN devices \ Kept : Gone(x)
<1>1. ASSUME NEW x \in DOMAIN requests, x \notin Kept PROVE Gone(x)
  <2>1. requests[x].expires = devices[x].expires
    BY DEF IInv, RequestsMatch
  <2>2. devices[x].expires \in Nat
    BY Types DEF IInv, Device
  <2> QED
    BY <1>1, <2>1, <2>2, Types DEF IInv, Kept, Gone
<1> QED
  BY <1>1 DEF IInv, Kept, KeptUserCodes, PrunedIsGone

LEMMA AuthorizeKeeps ==
  ASSUME IInv, NEW c \in Clients, NEW key \in UserCodes, Authorize(c, key)
  PROVE  IInv'
<1> DEFINE x == Cardinality(DOMAIN devices) + 1
           new == [client |-> c, expires |-> now + Lifetime,
                   done |-> FALSE, denied |-> FALSE, subject |-> "nobody"]
           device == [client |-> c, expires |-> now + Lifetime, due |-> now + Interval,
                      punctual |-> TRUE, lost |-> FALSE]
<1>0. TypeOK
  BY DEF IInv
<1>1. x \notin DOMAIN devices /\ x \in DeviceCodes
      /\ \E n \in 0..MaxDevices : DOMAIN devices \cup {x} = 1..n
  BY <1>0, NextCode DEF Authorize
<1>2. /\ requests' = Put(Only(requests, Kept), x, new)
      /\ userCodes' = Put(Only(userCodes, KeptUserCodes), key, x)
      /\ devices' = Put(devices, x, device)
      /\ verdict' = [verdict EXCEPT ![x] = "pending"]
      /\ key \notin KeptUserCodes
      /\ UNCHANGED <<now, pages, outcome, handed>>
  BY DEF Authorize
<1> HIDE DEF x
<1>3. /\ DOMAIN requests' = Kept \cup {x}
      /\ requests'[x] = new
      /\ \A y \in Kept : y # x /\ requests'[y] = requests[y]
  BY <1>0, <1>1, <1>2, PruningFacts, Types DEF Put, Only
<1>4. /\ DOMAIN userCodes' = KeptUserCodes \cup {key}
      /\ userCodes'[key] = x
      /\ \A k \in KeptUserCodes : userCodes'[k] = userCodes[k]
  BY <1>2, PruningFacts DEF Put, Only
<1>5. /\ DOMAIN devices' = DOMAIN devices \cup {x}
      /\ devices'[x] = device
      /\ \A y \in DOMAIN devices : devices'[y] = devices[y]
  BY <1>1, <1>2 DEF Put
<1>6. /\ verdict'[x] = "pending"
      /\ \A y \in DeviceCodes : y # x => verdict'[y] = verdict[y]
  BY <1>0, <1>1, <1>2 DEF TypeOK
<1>7. now + Lifetime \in Nat /\ now + Interval \in Nat /\ now \in Nat
  BY <1>0, Types
<1>8. new \in Stored /\ device \in Device
  BY <1>7 DEF Stored, Device
<1>9. TypeOK'
  <2>1. requests' \in [DOMAIN requests' -> Stored]
    <3>1. \A y \in DOMAIN requests' : requests'[y] \in Stored
      BY <1>0, <1>3, <1>8, PruningFacts, Types
    <3> QED
      BY <1>2, <3>1 DEF Put
  <2>2. userCodes' \in [DOMAIN userCodes' -> DOMAIN devices']
    <3>1. \A k \in DOMAIN userCodes' : userCodes'[k] \in DOMAIN devices'
      BY <1>0, <1>4, <1>5, PruningFacts, Types
    <3> QED
      BY <1>2, <3>1 DEF Put
  <2>3. devices' \in [DOMAIN devices' -> Device]
    <3>1. \A y \in DOMAIN devices' : devices'[y] \in Device
      BY <1>0, <1>5, <1>8, Types
    <3> QED
      BY <1>2, <3>1 DEF Put
  <2>4. DOMAIN requests' \subseteq DOMAIN devices' /\ DOMAIN userCodes' \subseteq UserCodes
    BY <1>0, <1>3, <1>4, <1>5, PruningFacts, Types
  <2>5. pages' \in [Browsers ->
          {Closed} \cup [open : {TRUE}, key : UserCodes, shown : DOMAIN devices']]
    BY <1>0, <1>2, <1>5 DEF TypeOK
  <2>6. verdict' \in [DeviceCodes -> {"unknown", "pending", "denied"} \cup Subs]
    BY <1>0, <1>2 DEF TypeOK
  <2>7. handed' \subseteq [code : DOMAIN devices', client : Clients, sub : Subs]
    BY <1>0, <1>2, <1>5 DEF TypeOK
  <2>8. now' \in Nat /\ outcome' \in [DeviceCodes -> {"none", "tokens", "denied", "expired"}]
    BY <1>0, <1>2 DEF TypeOK
  <2>9. \E n \in 0..MaxDevices : DOMAIN devices' = 1..n
    BY <1>1, <1>5
  <2> QED
    BY <2>1, <2>2, <2>3, <2>4, <2>5, <2>6, <2>7, <2>8, <2>9 DEF TypeOK, Stored, Device
<1>10. UserCodesResolve'
  <2>1. \A k \in DOMAIN userCodes' : userCodes'[k] \in DOMAIN requests'
    BY <1>3, <1>4, PruningFacts
  <2>2. \A k \in KeptUserCodes : userCodes[k] # x
    BY <1>3, PruningFacts
  <2>3. \A k, l \in DOMAIN userCodes' : userCodes'[k] = userCodes'[l] => k = l
    BY <1>2, <1>4, <2>2, PruningFacts DEF IInv, UserCodesResolve
  <2> QED
    BY <2>1, <2>3 DEF UserCodesResolve
<1>11. RequestsMatch'
  BY <1>0, <1>3, <1>5, PruningFacts, Types DEF IInv, RequestsMatch
<1>12. Decisions'
  <2>1. Decided(new, "pending")
    BY DEF Decided
  <2>2. \A y \in Kept : verdict'[y] = verdict[y]
    BY <1>0, <1>3, <1>6, PruningFacts, Types
  <2> QED
    BY <1>3, <1>6, <2>1, <2>2, PruningFacts DEF IInv, Decisions
<1>13. UnusedCodes'
  BY <1>1, <1>2, <1>5, <1>6 DEF IInv, UnusedCodes
<1>14. PrunedIsGone'
  BY <1>2, <1>3, <1>5, PruningFacts DEF PrunedIsGone, Gone
<1>15. RepliesStand'
  <2>1. outcome'[x] = "none"
    BY <1>1, <1>2 DEF IInv, UnusedCodes
  <2>2. ASSUME NEW y \in Kept, outcome[y] # "none"
        PROVE  Reply(y, requests[y].client)' = outcome[y]
    <3>1. Reply(y, requests[y].client) = outcome[y]
      BY <2>2, PruningFacts DEF IInv, RepliesStand
    <3> QED
      BY <1>2, <1>3, <3>1, PruningFacts DEF Reply
  <2> QED
    BY <1>2, <1>3, <2>1, <2>2 DEF RepliesStand
<1>16. TokensAsApproved'
  <2>1. \A h \in handed : h.code \in DOMAIN devices /\ h.code \in DeviceCodes /\ h.code # x
    BY <1>0, <1>1, Types
  <2> QED
    BY <1>2, <1>5, <1>6, <2>1 DEF IInv, TokensAsApproved
<1>17. PagesStand'
  <2> SUFFICES ASSUME NEW b \in Browsers, pages[b].open, pages[b].shown \in DOMAIN requests'
               PROVE  /\ pages[b].key \in DOMAIN userCodes'
                      /\ userCodes'[pages[b].key] = pages[b].shown
    BY <1>2 DEF PagesStand
  <2>1. pages[b].shown \in Kept
    BY <1>0, <1>1, <1>3, Types
  <2>2. pages[b].key \in DOMAIN userCodes /\ userCodes[pages[b].key] = pages[b].shown
    BY <2>1, PruningFacts DEF IInv, PagesStand
  <2> QED
    BY <1>4, <2>1, <2>2 DEF KeptUserCodes
<1>18. Punctuality'
  <2>1. /\ devices'[x].punctual => ~devices'[x].lost /\ now <= devices'[x].due
        /\ devices'[x].due <= devices'[x].expires + Interval
    BY <1>0, <1>5, Types
  <2> QED
    BY <1>2, <1>5, <2>1 DEF IInv, Punctuality
<1> QED
  BY <1>9, <1>10, <1>11, <1>12, <1>13, <1>14, <1>15, <1>16, <1>17, <1>18 DEF IInv

(* A refused user code leaves the pruning behind.                          *)
LEMMA DuplicateKeeps ==
  ASSUME IInv, NEW key \in UserCodes, AuthorizeDuplicate(key)
  PROVE  IInv'
<1>0. TypeOK
  BY DEF IInv
<1>1. /\ DOMAIN requests' = Kept
      /\ \A y \in Kept : requests'[y] = requests[y]
      /\ DOMAIN userCodes' = KeptUserCodes
      /\ \A k \in KeptUserCodes : userCodes'[k] = userCodes[k]
      /\ requests' = [y \in DOMAIN requests' |-> requests'[y]]
      /\ userCodes' = [k \in DOMAIN userCodes' |-> userCodes'[k]]
      /\ UNCHANGED <<now, pages, devices, outcome, verdict, handed>>
  BY PruningFacts DEF AuthorizeDuplicate, Only
<1>2. TypeOK'
  <2>1. requests' \in [DOMAIN requests' -> Stored]
    BY <1>0, <1>1, PruningFacts, Types
  <2>2. userCodes' \in [DOMAIN userCodes' -> DOMAIN devices']
    BY <1>0, <1>1, PruningFacts, Types
  <2>3. DOMAIN requests' \subseteq DOMAIN devices' /\ DOMAIN userCodes' \subseteq UserCodes
    BY <1>0, <1>1, PruningFacts, Types
  <2> QED
    BY <1>0, <1>1, <2>1, <2>2, <2>3 DEF TypeOK, Stored
<1>3. UserCodesResolve'
  BY <1>1, PruningFacts DEF IInv, UserCodesResolve
<1>4. RequestsMatch' /\ Decisions' /\ UnusedCodes'
  BY <1>1, PruningFacts DEF IInv, RequestsMatch, Decisions, UnusedCodes
<1>5. PrunedIsGone'
  BY <1>1, PruningFacts DEF PrunedIsGone, Gone
<1>6. RepliesStand'
  <2>1. ASSUME NEW y \in Kept, outcome[y] # "none"
        PROVE  Reply(y, requests[y].client)' = outcome[y]
    <3>1. Reply(y, requests[y].client) = outcome[y]
      BY <2>1, PruningFacts DEF IInv, RepliesStand
    <3> QED
      BY <1>1, <3>1, PruningFacts DEF Reply
  <2> QED
    BY <1>1, <2>1 DEF RepliesStand
<1>7. PagesStand'
  BY <1>1, PruningFacts DEF IInv, PagesStand, KeptUserCodes
<1>8. TokensAsApproved' /\ Punctuality'
  BY <1>1 DEF IInv, TokensAsApproved, Punctuality
<1> QED
  BY <1>2, <1>3, <1>4, <1>5, <1>6, <1>7, <1>8 DEF IInv

-----------------------------------------------------------------------------
(* What a pending code stands for: a stored request whose device has no    *)
(* answer, because an answer stands and this one would be "none".          *)
LEMMA PendingFacts ==
  ASSUME IInv, NEW key, PendingCode(key)
  PROVE  LET x == userCodes[key]
         IN  /\ x \in DOMAIN requests /\ x \in DOMAIN devices /\ x \in DeviceCodes
             /\ ~requests[x].done /\ ~requests[x].denied
             /\ now <= requests[x].expires
             /\ verdict[x] = "pending" /\ outcome[x] = "none"
<1> DEFINE x == userCodes[key]
<1>1. x \in DOMAIN requests
  BY DEF IInv, UserCodesResolve, PendingCode
<1>2. ~requests[x].done /\ ~requests[x].denied /\ now <= requests[x].expires
  BY DEF PendingCode
<1>3. verdict[x] = "pending"
  BY <1>1, <1>2 DEF IInv, Decisions, Decided
<1>4. now \in Nat /\ requests[x].expires \in Nat /\ x \in DOMAIN devices /\ x \in DeviceCodes
  BY <1>1, Types DEF IInv, Stored
<1>5. Reply(x, requests[x].client) = "none"
  BY <1>1, <1>2, <1>4 DEF Reply
<1>6. outcome[x] = "none"
  BY <1>1, <1>5 DEF IInv, RepliesStand
<1> QED
  BY <1>1, <1>2, <1>3, <1>4, <1>6

(* Opening or closing a page disturbs the pages only.                      *)
LEMMA PagesKeep ==
  ASSUME IInv, UNCHANGED <<now, storage, devices, outcome, verdict, handed>>,
         NEW b \in Browsers,
         NEW page \in {Closed} \cup [open : {TRUE}, key : UserCodes, shown : DOMAIN devices],
         pages' = [pages EXCEPT ![b] = page],
         page.open => page.key \in DOMAIN userCodes /\ userCodes[page.key] = page.shown
  PROVE  IInv'
<1>1. UNCHANGED <<now, requests, userCodes, devices, outcome, verdict, handed>>
  BY DEF storage
<1>2. TypeOK'
  BY <1>1 DEF IInv, TypeOK
<1>3. PagesStand'
  <2> SUFFICES ASSUME NEW d \in Browsers, pages'[d].open, pages'[d].shown \in DOMAIN requests
               PROVE  /\ pages'[d].key \in DOMAIN userCodes
                      /\ userCodes[pages'[d].key] = pages'[d].shown
    BY <1>1 DEF PagesStand
  <2>1. CASE d = b
    BY <2>1 DEF IInv, TypeOK
  <2>2. CASE d # b
    BY <2>2 DEF IInv, TypeOK, PagesStand
  <2> QED
    BY <2>1, <2>2
<1>4. UserCodesResolve' /\ RequestsMatch' /\ Decisions' /\ UnusedCodes'
  BY <1>1 DEF IInv, UserCodesResolve, RequestsMatch, Decisions, UnusedCodes
<1>5. PrunedIsGone' /\ TokensAsApproved' /\ Punctuality'
  BY <1>1 DEF IInv, PrunedIsGone, Gone, TokensAsApproved, Punctuality
<1>6. RepliesStand'
  BY <1>1 DEF IInv, RepliesStand, Reply
<1> QED
  BY <1>2, <1>3, <1>4, <1>5, <1>6 DEF IInv

(* A decision on a pending code: q is the request approved or denied, v    *)
(* the verdict.  Nobody has been answered about it yet.                    *)
LEMMA DecisionKeeps ==
  ASSUME IInv, NEW b \in Browsers, pages[b].open, PendingCode(pages[b].key),
         NEW q \in Stored, NEW v \in Subs \cup {"denied"}, Decided(q, v),
         q.client = requests[userCodes[pages[b].key]].client,
         q.expires = requests[userCodes[pages[b].key]].expires,
         requests' = [requests EXCEPT ![userCodes[pages[b].key]] = q],
         verdict' = [verdict EXCEPT ![userCodes[pages[b].key]] = v],
         pages' = [pages EXCEPT ![b] = Closed],
         UNCHANGED <<now, userCodes, devices, outcome, handed>>
  PROVE  IInv'
<1> DEFINE x == userCodes[pages[b].key]
<1>0. TypeOK
  BY DEF IInv
<1>1. /\ x \in DOMAIN requests /\ x \in DOMAIN devices /\ x \in DeviceCodes
      /\ verdict[x] = "pending" /\ outcome[x] = "none"
  BY PendingFacts
<1>2. /\ requests' = [requests EXCEPT ![x] = q]
      /\ verdict' = [verdict EXCEPT ![x] = v]
      /\ q.client = requests[x].client /\ q.expires = requests[x].expires
  OBVIOUS
<1> HIDE DEF x
<1>3. /\ DOMAIN requests' = DOMAIN requests /\ requests'[x] = q
      /\ \A y \in DOMAIN requests : y # x => requests'[y] = requests[y]
  BY <1>0, <1>1, <1>2, Types
<1>4. /\ verdict'[x] = v /\ v # "unknown"
      /\ \A y \in DeviceCodes : y # x => verdict'[y] = verdict[y]
  BY <1>0, <1>1, <1>2, SubsAssumption DEF TypeOK
<1>5. TypeOK'
  <2>1. requests' \in [DOMAIN requests' -> Stored]
    BY <1>0, <1>2, <1>3, Types
  <2>2. verdict' \in [DeviceCodes -> {"unknown", "pending", "denied"} \cup Subs]
    BY <1>0, <1>2 DEF TypeOK
  <2>3. pages' \in [Browsers ->
          {Closed} \cup [open : {TRUE}, key : UserCodes, shown : DOMAIN devices']]
    BY <1>0 DEF TypeOK
  <2> QED
    BY <1>0, <1>3, <2>1, <2>2, <2>3 DEF TypeOK, Stored
<1>6. UserCodesResolve'
  BY <1>3 DEF IInv, UserCodesResolve
<1>7. RequestsMatch'
  BY <1>2, <1>3 DEF IInv, RequestsMatch
<1>8. Decisions'
  BY <1>0, <1>3, <1>4, Types DEF IInv, Decisions
<1>9. UnusedCodes'
  BY <1>1, <1>4 DEF IInv, UnusedCodes
<1>10. PrunedIsGone' /\ Punctuality'
  BY <1>3 DEF IInv, PrunedIsGone, Gone, Punctuality
<1>11. RepliesStand'
  <2>1. ASSUME NEW y \in DOMAIN requests, y # x, outcome[y] # "none"
        PROVE  Reply(y, requests[y].client)' = outcome[y]
    <3>1. Reply(y, requests[y].client) = outcome[y]
      BY <2>1 DEF IInv, RepliesStand
    <3> QED
      BY <1>3, <2>1, <3>1 DEF Reply
  <2> QED
    BY <1>1, <1>3, <2>1 DEF RepliesStand
<1>12. TokensAsApproved'
  <2>1. ASSUME NEW h \in handed PROVE h.code # x /\ h.code \in DeviceCodes
    BY <1>0, <1>1, SubsAssumption, Types DEF IInv, TokensAsApproved
  <2> QED
    BY <1>4, <2>1 DEF IInv, TokensAsApproved
<1>13. PagesStand'
  <2>1. \A d \in Browsers : pages'[d].open => d # b /\ pages'[d] = pages[d]
    BY <1>0 DEF TypeOK, Closed
  <2> QED
    BY <1>3, <2>1 DEF IInv, PagesStand
<1> QED
  BY <1>5, <1>6, <1>7, <1>8, <1>9, <1>10, <1>11, <1>12, <1>13 DEF IInv

LEMMA ApproveDecides ==
  ASSUME IInv, NEW b \in Browsers, NEW sub \in Subs, Approve(b, sub)
  PROVE  IInv'
<1> DEFINE x == userCodes[pages[b].key]
           q == [requests[x] EXCEPT !.done = TRUE, !.subject = sub]
<1>1. x \in DOMAIN requests /\ ~requests[x].denied /\ requests[x] \in Stored
  BY PendingFacts, Types DEF IInv, Approve
<1>2. q \in Stored /\ q.client = requests[x].client /\ q.expires = requests[x].expires
      /\ Decided(q, sub)
  BY <1>1 DEF Stored, Decided
<1>3. requests' = [requests EXCEPT ![x] = q]
  BY <1>1, Types DEF IInv, Approve
<1> QED
  BY <1>2, <1>3, DecisionKeeps DEF Approve

LEMMA DenyDecides ==
  ASSUME IInv, NEW b \in Browsers, Deny(b)
  PROVE  IInv'
<1> DEFINE x == userCodes[pages[b].key]
           q == [requests[x] EXCEPT !.denied = TRUE]
<1>1. x \in DOMAIN requests /\ ~requests[x].done /\ requests[x] \in Stored
  BY PendingFacts, Types DEF IInv, Deny
<1>2. q \in Stored /\ q.client = requests[x].client /\ q.expires = requests[x].expires
      /\ Decided(q, "denied")
  BY <1>1 DEF Stored, Decided
<1>3. requests' = [requests EXCEPT ![x] = q]
  BY <1>1, Types DEF IInv, Deny
<1> QED
  BY <1>2, <1>3, DecisionKeeps DEF Deny

-----------------------------------------------------------------------------
(* Tokens are for the device's own client and the persona approved.        *)
LEMMA HandingKeeps ==
  ASSUME IInv, NEW x \in DOMAIN devices, NEW c \in Clients, Handing(x, c)
  PROVE  /\ handed' \subseteq [code : DOMAIN devices, client : Clients, sub : Subs]
         /\ \A h \in handed' : h.client = devices[h.code].client /\ h.sub = verdict[h.code]
<1>1. CASE Reply(x, c) = "tokens"
  <2>1. x \in DOMAIN requests /\ requests[x].client = c /\ requests[x].done
    BY <1>1 DEF Reply
  <2>2. c = devices[x].client /\ verdict[x] = requests[x].subject /\ verdict[x] \in Subs
    BY <2>1 DEF IInv, RequestsMatch, Decisions, Decided
  <2> DEFINE h == [code |-> x, client |-> c, sub |-> requests[x].subject]
  <2>3. handed' = handed \cup {h} /\ h \in [code : DOMAIN devices, client : Clients, sub : Subs]
    BY <1>1, <2>2 DEF Handing
  <2> QED
    BY <2>2, <2>3 DEF IInv, TypeOK, TokensAsApproved
<1>2. CASE Reply(x, c) # "tokens"
  BY <1>2 DEF Handing, IInv, TypeOK, TokensAsApproved
<1> QED
  BY <1>1, <1>2

LEMMA OnlyHandedMoves ==
  ASSUME IInv, NEW x \in DOMAIN devices, NEW c \in Clients, Handing(x, c),
         UNCHANGED <<now, storage, pages, devices, outcome, verdict>>
  PROVE  IInv'
<1>1. UNCHANGED <<now, requests, userCodes, pages, devices, outcome, verdict>>
  BY DEF storage
<1>2. TypeOK' /\ TokensAsApproved'
  BY <1>1, HandingKeeps DEF IInv, TypeOK, TokensAsApproved
<1>3. UserCodesResolve' /\ RequestsMatch' /\ Decisions' /\ UnusedCodes' /\ PagesStand'
  BY <1>1 DEF IInv, UserCodesResolve, RequestsMatch, Decisions, UnusedCodes, PagesStand
<1>4. PrunedIsGone' /\ Punctuality' /\ RepliesStand'
  BY <1>1 DEF IInv, PrunedIsGone, Gone, Punctuality, RepliesStand, Reply
<1> QED
  BY <1>2, <1>3, <1>4 DEF IInv

(* A poll that finds no answer comes before the expiry, so the next one is *)
(* due within the grace.                                                   *)
LEMMA PollKeeps ==
  ASSUME IInv, NEW x \in DOMAIN devices, Poll(x)
  PROVE  IInv'
<1> DEFINE c == devices[x].client
           reply == Reply(x, c)
<1>0. TypeOK /\ devices[x] \in Device /\ c \in Clients /\ x \in DeviceCodes
  BY Types DEF IInv, Device
<1>1. /\ outcome[x] = "none" /\ outcome' = [outcome EXCEPT ![x] = reply]
      /\ devices' = [devices EXCEPT ![x].due = now + Interval]
      /\ Handing(x, c)
      /\ UNCHANGED <<now, requests, userCodes, pages, verdict>>
  BY DEF Poll, storage
<1>2. reply \in {"none", "tokens", "denied", "expired"}
  BY DEF Reply
<1>3. /\ DOMAIN devices' = DOMAIN devices
      /\ devices'[x] = [devices[x] EXCEPT !.due = now + Interval]
      /\ \A y \in DOMAIN devices : y # x => devices'[y] = devices[y]
  BY <1>0, <1>1, Types
<1>4. /\ devices'[x].due = now + Interval /\ devices'[x] \in Device
      /\ \A y \in DOMAIN devices : /\ devices'[y].client = devices[y].client
                                   /\ devices'[y].expires = devices[y].expires
                                   /\ devices'[y].punctual = devices[y].punctual
                                   /\ devices'[y].lost = devices[y].lost
  <2>1. now + Interval \in Nat
    BY <1>0, Types
  <2>2. /\ devices'[x].due = now + Interval /\ devices'[x] \in Device
        /\ devices'[x].client = devices[x].client /\ devices'[x].expires = devices[x].expires
        /\ devices'[x].punctual = devices[x].punctual /\ devices'[x].lost = devices[x].lost
    BY <1>0, <1>3, <2>1 DEF Device
  <2> QED
    BY <1>3, <2>2
<1>5. outcome'[x] = reply /\ \A y \in DeviceCodes : y # x => outcome'[y] = outcome[y]
  BY <1>0, <1>1 DEF TypeOK
<1> HIDE DEF reply
<1>6. TypeOK'
  <2>1. devices' \in [DOMAIN devices' -> Device]
    BY <1>0, <1>1, <1>3, <1>4, Types
  <2>2. outcome' \in [DeviceCodes -> {"none", "tokens", "denied", "expired"}]
    BY <1>0, <1>1, <1>2 DEF TypeOK
  <2>3. handed' \subseteq [code : DOMAIN devices', client : Clients, sub : Subs]
    BY <1>0, <1>1, <1>3, HandingKeeps
  <2> QED
    BY <1>0, <1>1, <1>3, <2>1, <2>2, <2>3 DEF TypeOK, Device
<1>7. TokensAsApproved'
  <2>1. \A h \in handed' : h.client = devices[h.code].client /\ h.sub = verdict[h.code]
    BY <1>0, <1>1, HandingKeeps
  <2>2. \A h \in handed' : h.code \in DOMAIN devices
    BY <1>0, <1>1, HandingKeeps
  <2> QED
    BY <1>1, <1>4, <2>1, <2>2 DEF TokensAsApproved
<1>8. UserCodesResolve' /\ Decisions' /\ PagesStand'
  BY <1>1 DEF IInv, UserCodesResolve, Decisions, PagesStand
<1>9. RequestsMatch'
  BY <1>0, <1>1, <1>4, Types DEF IInv, RequestsMatch
<1>10. UnusedCodes'
  BY <1>0, <1>1, <1>3, <1>5 DEF IInv, UnusedCodes
<1>11. PrunedIsGone'
  BY <1>1, <1>3, <1>4 DEF IInv, PrunedIsGone, Gone
<1>12. RepliesStand'
  <2> SUFFICES ASSUME NEW y \in DOMAIN requests, outcome'[y] # "none"
               PROVE  Reply(y, requests[y].client) = outcome'[y]
    BY <1>1 DEF RepliesStand, Reply
  <2>1. CASE y = x
    BY <1>5, <2>1 DEF IInv, RequestsMatch, reply
  <2>2. CASE y # x
    BY <1>0, <1>5, <2>2, Types DEF IInv, RepliesStand
  <2> QED
    BY <2>1, <2>2
<1>13. Punctuality'
  <2> SUFFICES ASSUME NEW y \in DOMAIN devices
               PROVE  /\ devices'[y].punctual => ~devices'[y].lost /\ now <= devices'[y].due
                      /\ outcome'[y] = "none" =>
                           devices'[y].due <= devices'[y].expires + Interval
    BY <1>1, <1>3 DEF Punctuality
  <2>1. CASE y # x
    BY <1>0, <1>3, <1>5, <2>1, Types DEF IInv, Punctuality
  <2>2. CASE y = x
    <3>1. now <= devices'[x].due
      BY <1>0, <1>4, Types
    <3>2. ASSUME reply = "none" PROVE now <= devices[x].expires
      <4>1. x \in DOMAIN requests /\ ~(now > requests[x].expires)
        BY <3>2 DEF Reply, reply
      <4>2. requests[x].expires = devices[x].expires /\ devices[x].expires \in Nat
        BY <1>0, <4>1 DEF IInv, RequestsMatch, Device
      <4> QED
        BY <1>0, <4>1, <4>2, Types
    <3>3. reply = "none" => devices'[x].due <= devices'[x].expires + Interval
      <4>1. devices[x].expires \in Nat
        BY <1>0 DEF Device
      <4> QED
        BY <1>0, <1>4, <3>2, <4>1, Types
    <3> QED
      BY <1>4, <1>5, <2>2, <3>1, <3>3 DEF IInv, Punctuality
  <2> QED
    BY <2>1, <2>2
<1> QED
  BY <1>6, <1>7, <1>8, <1>9, <1>10, <1>11, <1>12, <1>13 DEF IInv

-----------------------------------------------------------------------------
(* Time only takes the place of an answer that is none.                    *)
LEMMA TickKeeps ==
  ASSUME IInv, Tick
  PROVE  IInv'
<1>0. TypeOK /\ now \in Nat /\ now' = now + 1 /\ Grace \in Nat
  BY Types DEF IInv, Tick
<1>1. UNCHANGED <<requests, userCodes, pages, outcome, verdict, handed>>
  BY DEF Tick, storage
<1>2. devices' = [x \in DOMAIN devices |->
        [devices[x] EXCEPT !.punctual = @ /\ now + 1 <= devices[x].due]]
  BY DEF Tick
<1>3. /\ DOMAIN devices' = DOMAIN devices
      /\ \A x \in DOMAIN devices :
           /\ devices'[x] \in Device /\ devices[x] \in Device
           /\ devices'[x].client = devices[x].client
           /\ devices'[x].expires = devices[x].expires /\ devices[x].expires \in Nat
           /\ devices'[x].due = devices[x].due
           /\ devices'[x].lost = devices[x].lost
           /\ devices'[x].punctual => devices[x].punctual /\ now + 1 <= devices[x].due
  <2>1. ASSUME NEW x \in DOMAIN devices
        PROVE  LET d == [devices[x] EXCEPT !.punctual = @ /\ now + 1 <= devices[x].due]
               IN  /\ d \in Device /\ devices[x] \in Device
                   /\ d.client = devices[x].client
                   /\ d.expires = devices[x].expires /\ devices[x].expires \in Nat
                   /\ d.due = devices[x].due /\ d.lost = devices[x].lost
                   /\ d.punctual => devices[x].punctual /\ now + 1 <= devices[x].due
    <3>1. devices[x] \in Device
      BY <1>0, Types
    <3> QED
      BY <3>1 DEF Device
  <2> QED
    BY <1>2, <2>1
<1>4. TypeOK'
  <2>1. devices' \in [DOMAIN devices' -> Device]
    BY <1>2, <1>3
  <2>2. now' \in Nat
    BY <1>0
  <2> QED
    BY <1>0, <1>1, <1>3, <2>1, <2>2 DEF TypeOK, Device
<1>5. UserCodesResolve' /\ Decisions' /\ PagesStand'
  BY <1>1 DEF IInv, UserCodesResolve, Decisions, PagesStand
<1>6. RequestsMatch' /\ UnusedCodes'
  BY <1>0, <1>1, <1>3, Types DEF IInv, RequestsMatch, UnusedCodes
<1>7. TokensAsApproved'
  BY <1>0, <1>1, <1>3, Types DEF IInv, TokensAsApproved
<1>8. PrunedIsGone'
  <2>1. ASSUME NEW x \in DOMAIN devices, Gone(x) PROVE Gone(x)'
    <3>1. devices[x].lost => devices'[x].lost
      BY <1>3
    <3>2. now > devices[x].expires + Grace => now' > devices'[x].expires + Grace
      <4>1. devices'[x].expires = devices[x].expires /\ devices[x].expires \in Nat
        BY <1>3
      <4> QED
        BY <1>0, <4>1
    <3> QED
      BY <2>1, <3>1, <3>2 DEF Gone
  <2> QED
    BY <1>1, <1>3, <2>1 DEF IInv, PrunedIsGone
<1>9. RepliesStand'
  <2> SUFFICES ASSUME NEW x \in DOMAIN requests, outcome[x] # "none"
               PROVE  Reply(x, requests[x].client)' = outcome[x]
    BY <1>1 DEF RepliesStand
  <2>1. Reply(x, requests[x].client) = outcome[x]
    BY DEF IInv, RepliesStand
  <2>2. now > requests[x].expires => now' > requests[x].expires
    <3>1. requests[x].expires \in Nat
      BY <1>0, Types DEF Stored
    <3> QED
      BY <1>0, <3>1
  <2> QED
    BY <1>1, <2>1, <2>2 DEF Reply
<1>10. Punctuality'
  BY <1>0, <1>1, <1>3 DEF IInv, Punctuality
<1> QED
  BY <1>4, <1>5, <1>6, <1>7, <1>8, <1>9, <1>10 DEF IInv

LEMMA RestartKeeps ==
  ASSUME IInv, Restart
  PROVE  IInv'
<1>0. TypeOK
  BY DEF IInv
<1>1. /\ UNCHANGED <<now, pages, outcome, verdict, handed>>
      /\ requests' = Empty /\ userCodes' = Empty
      /\ DOMAIN requests' = {} /\ DOMAIN userCodes' = {}
  BY DEF Restart, Empty
<1>2. devices' = [x \in DOMAIN devices |-> [devices[x] EXCEPT !.punctual = FALSE, !.lost = TRUE]]
  BY DEF Restart
<1>3. /\ DOMAIN devices' = DOMAIN devices
      /\ \A x \in DOMAIN devices :
           /\ devices'[x] \in Device
           /\ devices'[x].client = devices[x].client
           /\ devices'[x].expires = devices[x].expires
           /\ devices'[x].due = devices[x].due
           /\ devices'[x].lost /\ ~devices'[x].punctual
  BY <1>0, <1>2, Types DEF Device
<1>4. TypeOK'
  <2>1. devices' \in [DOMAIN devices' -> Device]
    BY <1>2, <1>3
  <2> QED
    BY <1>0, <1>1, <1>3, <2>1 DEF TypeOK, Device, Empty
<1>5. UserCodesResolve' /\ RequestsMatch' /\ Decisions' /\ RepliesStand' /\ PagesStand'
  BY <1>1 DEF UserCodesResolve, RequestsMatch, Decisions, RepliesStand, PagesStand
<1>6. UnusedCodes'
  BY <1>1, <1>3 DEF IInv, UnusedCodes
<1>7. PrunedIsGone' /\ Punctuality'
  BY <1>1, <1>3 DEF IInv, PrunedIsGone, Gone, Punctuality
<1>8. TokensAsApproved'
  BY <1>0, <1>1, <1>3, Types DEF IInv, TokensAsApproved
<1> QED
  BY <1>4, <1>5, <1>6, <1>7, <1>8 DEF IInv

LEMMA InvStep == IInv /\ [Next]_vars => IInv'
<1> SUFFICES ASSUME IInv, [Next]_vars PROVE IInv'
  OBVIOUS
<1>1. ASSUME NEW c \in Clients, NEW key \in UserCodes, Authorize(c, key) PROVE IInv'
  BY <1>1, AuthorizeKeeps
<1>2. ASSUME NEW key \in UserCodes, AuthorizeDuplicate(key) PROVE IInv'
  BY <1>2, DuplicateKeeps
<1>3. ASSUME NEW b \in Browsers, NEW key \in UserCodes, GetDevice(b, key) PROVE IInv'
  <2> DEFINE page == [open |-> TRUE, key |-> key, shown |-> userCodes[key]]
  <2>1. key \in DOMAIN userCodes /\ userCodes[key] \in DOMAIN devices
    BY <1>3, PendingFacts DEF GetDevice, PendingCode
  <2> QED
    BY <1>3, <2>1, PagesKeep DEF GetDevice
<1>4. ASSUME NEW b \in Browsers, NEW sub \in Subs, Approve(b, sub) PROVE IInv'
  BY <1>4, ApproveDecides
<1>5. ASSUME NEW b \in Browsers, Deny(b) PROVE IInv'
  BY <1>5, DenyDecides
<1>6. ASSUME NEW b \in Browsers, RefusedPost(b) PROVE IInv'
  BY <1>6, PagesKeep DEF RefusedPost, Closed
<1>7. ASSUME NEW x \in DOMAIN devices, Poll(x) PROVE IInv'
  BY <1>7, PollKeeps
<1>8. ASSUME NEW x \in DOMAIN devices, PollAgain(x) PROVE IInv'
  <2>1. devices[x].client \in Clients
    BY Types DEF IInv, Device
  <2> QED
    BY <1>8, <2>1, OnlyHandedMoves DEF PollAgain
<1>9. ASSUME NEW x \in DOMAIN devices, NEW c \in Clients, ForeignPoll(x, c) PROVE IInv'
  BY <1>9, OnlyHandedMoves DEF ForeignPoll
<1>10. CASE Tick
  BY <1>10, TickKeeps
<1>11. CASE Restart
  BY <1>11, RestartKeeps
<1>12. CASE UNCHANGED vars
  BY <1>12 DEF vars, storage, IInv, TypeOK, UserCodesResolve, RequestsMatch, Decisions,
     UnusedCodes, PrunedIsGone, Gone, RepliesStand, Reply, TokensAsApproved, PagesStand, Punctuality
<1> QED
  BY <1>1, <1>2, <1>3, <1>4, <1>5, <1>6, <1>7, <1>8, <1>9, <1>10, <1>11, <1>12 DEF Next

LEMMA Inductive == Spec => []IInv
BY InvInit, InvStep, PTL DEF Spec

-----------------------------------------------------------------------------
(* Every variable keeps its type; in particular tokens are for personas,   *)
(* never for the subject of an authorization nobody approved               *)
(* (device.go:93-97).                                                      *)
THEOREM TypeCorrect == Spec => []TypeOK
<1>1. IInv => TypeOK
  BY DEF IInv
<1> QED
  BY <1>1, Inductive, PTL

(* The pages' unchecked dereference of a user code is always of a stored   *)
(* request, and two user codes never share one (device.go:49-59,146-151).  *)
THEOREM CodesResolve == Spec => []UserCodesResolve
<1>1. IInv => UserCodesResolve
  BY DEF IInv
<1> QED
  BY <1>1, Inductive, PTL

(* Tokens reach the client that asked, for the persona that was approved   *)
(* (device.go:82,93-97,112-123).                                           *)
THEOREM TokensFollowApproval == Spec => []TokensAsApproved
<1>1. IInv => TokensAsApproved
  BY DEF IInv
<1> QED
  BY <1>1, Inductive, PTL

(* Whenever a device asks again it hears its first answer, until pruning   *)
(* past the grace, or a restart, turns it into "denied"                    *)
(* (device.go:74-99,143-183).                                              *)
THEOREM AnswersHold == Spec => []AnswersStand
<1>1. IInv => AnswersStand
  <2> SUFFICES ASSUME IInv, NEW x \in DOMAIN devices, outcome[x] # "none"
               PROVE  \/ Reply(x, devices[x].client) = outcome[x]
                      \/ /\ Reply(x, devices[x].client) = "denied"
                         /\ Gone(x)
    BY DEF AnswersStand, Gone
  <2>1. CASE x \in DOMAIN requests
    BY <2>1 DEF IInv, RequestsMatch, RepliesStand
  <2>2. CASE x \notin DOMAIN requests
    BY <2>2 DEF IInv, PrunedIsGone, Reply
  <2> QED
    BY <2>1, <2>2
<1> QED
  BY <1>1, Inductive, PTL

(* Although pages post reusable user codes, a post decides the device the  *)
(* page was shown for, unless that one is gone (device.go:49-59,145-158,   *)
(* login.go:184-191).                                                      *)
THEOREM PostsDecideShownDevice == Spec => PageDecidesShownDevice
<1> DEFINE Decides ==
      \A b \in Browsers, x \in DOMAIN devices :
        pages[b].open /\ pages'[b] # pages[b] /\ verdict'[x] # verdict[x] =>
          \/ x = pages[b].shown
          \/ now > devices[pages[b].shown].expires + Grace
          \/ devices[pages[b].shown].lost
<1>1. IInv /\ [Next]_vars => [Decides]_vars
  <2> SUFFICES ASSUME IInv, Next, NEW b \in Browsers, NEW x \in DOMAIN devices,
                      pages[b].open, pages'[b] # pages[b], verdict'[x] # verdict[x]
               PROVE  x = pages[b].shown \/ Gone(pages[b].shown)
    BY DEF Gone
  <2>0. TypeOK /\ pages[b].shown \in DOMAIN devices /\ x \in DeviceCodes
    BY Types DEF IInv
  <2>1. ASSUME NEW d \in Browsers, pages' = [pages EXCEPT ![d] = Closed],
               NEW v, verdict' = [verdict EXCEPT ![userCodes[pages[d].key]] = v]
        PROVE  x = pages[b].shown \/ Gone(pages[b].shown)
    <3>1. d = b /\ x = userCodes[pages[b].key]
      BY <2>0, <2>1 DEF TypeOK
    <3>2. CASE pages[b].shown \in DOMAIN requests
      BY <3>1, <3>2 DEF IInv, PagesStand
    <3>3. CASE pages[b].shown \notin DOMAIN requests
      BY <2>0, <3>3 DEF IInv, PrunedIsGone
    <3> QED
      BY <3>2, <3>3
  <2>2. ASSUME NEW d \in Browsers, NEW sub \in Subs, Approve(d, sub)
        PROVE  x = pages[b].shown \/ Gone(pages[b].shown)
    BY <2>1, <2>2 DEF Approve
  <2>3. ASSUME NEW d \in Browsers, Deny(d)
        PROVE  x = pages[b].shown \/ Gone(pages[b].shown)
    BY <2>1, <2>3 DEF Deny
  <2>4. pages' # pages /\ verdict' # verdict
    OBVIOUS
  <2>5. \A key \in UserCodes : ~AuthorizeDuplicate(key) /\ \A c \in Clients : ~Authorize(c, key)
    BY <2>4 DEF Authorize, AuthorizeDuplicate
  <2>6. \A d \in Browsers : ~RefusedPost(d) /\ \A key \in UserCodes : ~GetDevice(d, key)
    BY <2>4 DEF GetDevice, RefusedPost
  <2>7. \A y, c : ~Poll(y) /\ ~PollAgain(y) /\ ~ForeignPoll(y, c)
    BY <2>4 DEF Poll, PollAgain, ForeignPoll
  <2>8. ~Tick /\ ~Restart
    BY <2>4 DEF Tick, Restart
  <2> QED
    BY <2>2, <2>3, <2>5, <2>6, <2>7, <2>8 DEF Next
<1> QED
  BY <1>1, Inductive, PTL DEF Spec, PageDecidesShownDevice

-----------------------------------------------------------------------------
(* The refinement.  The devices promised an answer are the punctual ones.  *)

Punctual == {x \in DOMAIN devices : devices[x].punctual}

LEMMA AuthorizeStarts ==
  ASSUME IInv, NEW c \in Clients, NEW key \in UserCodes, Authorize(c, key)
  PROVE  DG!Next
<1> DEFINE x == Cardinality(DOMAIN devices) + 1
<1>1. x \notin DOMAIN devices /\ x \in DeviceCodes
  BY NextCode DEF IInv, Authorize
<1> HIDE DEF x
<1>2. /\ verdict' = [verdict EXCEPT ![x] = "pending"] /\ outcome' = outcome
      /\ \E d : devices' = Put(devices, x, d) /\ d.punctual = TRUE
  BY DEF Authorize, x
<1>3. DOMAIN devices' = DOMAIN devices \cup {x} /\ devices'[x].punctual
      /\ \A y \in DOMAIN devices : devices'[y] = devices[y]
  BY <1>1, <1>2 DEF Put
<1>4. Punctual' = Punctual \cup {x}
  BY <1>1, <1>3 DEF Punctual
<1>5. verdict[x] = "unknown"
  BY <1>1 DEF IInv, UnusedCodes
<1>6. \E y \in DeviceCodes : DG!Start(y)
  BY <1>1, <1>2, <1>4, <1>5 DEF DG!Start, Punctual
<1> QED
  BY <1>6 DEF DG!Next

LEMMA DecisionDecides ==
  ASSUME IInv, NEW key, PendingCode(key), NEW v \in Subs \cup {"denied"},
         verdict' = [verdict EXCEPT ![userCodes[key]] = v], UNCHANGED <<devices, outcome>>
  PROVE  DG!Next
<1>1. userCodes[key] \in DeviceCodes /\ verdict[userCodes[key]] = "pending"
      /\ outcome[userCodes[key]] = "none"
  BY PendingFacts
<1>2. DG!Decide(userCodes[key], v)
  BY <1>1 DEF DG!Decide
<1> QED
  BY <1>1, <1>2 DEF DG!Next

(* A punctual device without an answer is within the grace, so its request *)
(* has not been pruned: what it hears is the verdict.                      *)
LEMMA PollAnswers ==
  ASSUME IInv, NEW x \in DOMAIN devices, Poll(x)
  PROVE  DG!Next \/ UNCHANGED DG!vars
<1> DEFINE c == devices[x].client
<1>0. TypeOK /\ x \in DeviceCodes /\ devices[x] \in Device /\ now \in Nat
      /\ Interval \in Nat /\ Grace \in Nat
  BY Types DEF IInv
<1>1. /\ outcome[x] = "none" /\ outcome' = [outcome EXCEPT ![x] = Reply(x, c)]
      /\ devices' = [devices EXCEPT ![x].due = now + Interval]
      /\ UNCHANGED verdict
  BY DEF Poll
<1>2. Punctual' = Punctual
  <2>1. \A y \in DOMAIN devices : devices[y] \in Device
    BY <1>0, Types
  <2>2. devices[x].punctual = [devices[x] EXCEPT !.due = now + Interval].punctual
    BY <1>0 DEF Device
  <2>3. \A y \in DOMAIN devices : devices'[y].punctual = devices[y].punctual
    BY <1>1, <2>1, <2>2
  <2> QED
    BY <1>1, <2>3 DEF Punctual
<1>3. CASE Reply(x, c) = "none"
  <2>1. outcome' = outcome
    BY <1>0, <1>1, <1>3 DEF TypeOK
  <2> QED
    BY <1>1, <1>2, <2>1 DEF DG!vars, Punctual
<1>4. CASE Reply(x, c) # "none" /\ x \in DOMAIN requests
  <2>1. /\ Reply(x, c) = "tokens" => verdict[x] \in Subs
        /\ Reply(x, c) = "denied" => verdict[x] = "denied"
        /\ Reply(x, c) = "expired" => verdict[x] = "pending"
    BY <1>4 DEF Reply, IInv, RequestsMatch, Decisions, Decided
  <2>2. Reply(x, c) \in {"tokens", "denied", "expired"}
    BY <1>4 DEF Reply
  <2>3. DG!Answer(x)
    BY <1>1, <1>2, <2>1, <2>2 DEF DG!Answer, Punctual
  <2> QED
    BY <1>0, <2>3 DEF DG!Next
<1>5. CASE x \notin DOMAIN requests
  <2>1. Reply(x, c) = "denied"
    BY <1>5 DEF Reply
  <2>2. ~devices[x].punctual
    <3> SUFFICES ASSUME devices[x].punctual PROVE FALSE
      OBVIOUS
    <3>1. ~devices[x].lost /\ now <= devices[x].due
          /\ devices[x].due <= devices[x].expires + Interval
      BY <1>1 DEF IInv, Punctuality
    <3>2. now > devices[x].expires + Grace
      BY <1>5, <3>1 DEF IInv, PrunedIsGone, Gone
    <3>3. devices[x].due \in Nat /\ devices[x].expires \in Nat
      BY <1>0 DEF Device
    <3> QED
      BY <1>0, <3>1, <3>2, <3>3, GraceAssumption
  <2>3. verdict[x] # "unknown"
    BY <1>0 DEF IInv, UnusedCodes
  <2>4. DG!Misreport(x)
    BY <1>1, <1>2, <2>1, <2>2, <2>3 DEF DG!Misreport, Punctual
  <2> QED
    BY <1>0, <2>4 DEF DG!Next
<1> QED
  BY <1>3, <1>4, <1>5

(* Time and a restart can only forsake devices.                            *)
LEMMA PunctualShrinks ==
  ASSUME IInv, Punctual' \subseteq Punctual, UNCHANGED <<verdict, outcome>>
  PROVE  DG!Next
<1>1. Punctual \subseteq DeviceCodes
  BY Types DEF IInv, Punctual
<1>2. Punctual' = Punctual \ (Punctual \ Punctual')
  OBVIOUS
<1>3. \E S \in SUBSET DeviceCodes : DG!Forsake(S)
  <2>1. Punctual \ Punctual' \in SUBSET DeviceCodes
    BY <1>1
  <2> QED
    BY <1>2, <2>1 DEF DG!Forsake, Punctual
<1> QED
  BY <1>3 DEF DG!Next

LEMMA NextRefines == IInv /\ [Next]_vars => [DG!Next]_(DG!vars)
<1> SUFFICES ASSUME IInv, [Next]_vars PROVE DG!Next \/ UNCHANGED DG!vars
  OBVIOUS
<1>1. CASE UNCHANGED <<devices, outcome, verdict>>
  BY <1>1 DEF DG!vars
<1>2. ASSUME NEW c \in Clients, NEW key \in UserCodes, Authorize(c, key) PROVE DG!Next
  BY <1>2, AuthorizeStarts
<1>3. ASSUME NEW b \in Browsers, NEW sub \in Subs, Approve(b, sub) PROVE DG!Next
  BY <1>3, DecisionDecides DEF Approve
<1>4. ASSUME NEW b \in Browsers, Deny(b) PROVE DG!Next
  BY <1>4, DecisionDecides DEF Deny
<1>5. ASSUME NEW x \in DOMAIN devices, Poll(x) PROVE DG!Next \/ UNCHANGED DG!vars
  BY <1>5, PollAnswers
<1>6. CASE Tick
  <2>1. \A x \in DOMAIN devices :
          [devices[x] EXCEPT !.punctual = @ /\ now + 1 <= devices[x].due].punctual
            => devices[x].punctual
    BY Types DEF IInv, Device
  <2>2. Punctual' \subseteq Punctual
    BY <1>6, <2>1 DEF Tick, Punctual
  <2> QED
    BY <1>6, <2>2, PunctualShrinks DEF Tick
<1>7. CASE Restart
  <2>1. \A x \in DOMAIN devices : ~[devices[x] EXCEPT !.punctual = FALSE, !.lost = TRUE].punctual
    BY Types DEF IInv, Device
  <2>2. Punctual' \subseteq Punctual
    BY <1>7, <2>1 DEF Restart, Punctual
  <2> QED
    BY <1>7, <2>2, PunctualShrinks DEF Restart
<1> QED
  BY <1>1, <1>2, <1>3, <1>4, <1>5, <1>6, <1>7
  DEF Next, vars, AuthorizeDuplicate, GetDevice, RefusedPost, PollAgain, ForeignPoll

(* Every punctual device learns the one decision on its code and nothing   *)
(* else: the flow, with its clock, user codes, pages and pruning,          *)
(* implements the grant (device.go:112-183).                               *)
THEOREM GrantRefinement == Spec => ImplementsGrant
<1>1. Init => DG!Init
  BY DEF Init, DG!Init, Empty
<1> QED
  BY <1>1, NextRefines, Inductive, PTL DEF Spec, ImplementsGrant, DG!Spec
===============================================================================
