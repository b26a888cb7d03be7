------------------------------ MODULE DeviceFlow ------------------------------
(***************************************************************************)
(* The device authorization flow of internal/provider/device.go, the       *)
(* /device pages of internal/web/login.go and op's token-endpoint poll.    *)
(*                                                                         *)
(* Every storage method is one critical section of s.mu and one step.      *)
(* What interleaves is the device polling, people with pages open, the     *)
(* clock, and other devices' authorizations, which are what prunes.        *)
(***************************************************************************)
EXTENDS Integers, FiniteSets

CONSTANTS
  Subs,         \* the personas
  Clients,
  UserCodes,    \* normalised user codes: few, so that they collide
  Browsers,     \* people's pages
  Lifetime,     \* DeviceAuthorizationConfig.Lifetime
  Interval,     \* DeviceAuthorizationConfig.PollInterval
  Grace,        \* deviceOutcomeGrace
  MaxDevices,   \* bound: device authorizations
  MaxTime       \* bound: the clock

ASSUME TimesAssumption  == Lifetime \in Nat /\ Interval \in Nat /\ Grace \in Nat
(* "The grace comfortably exceeds op's 5s poll interval". *)
ASSUME GraceAssumption  == Interval <= Grace
ASSUME BoundsAssumption == MaxDevices \in Nat /\ MaxTime \in Nat
ASSUME SubsAssumption   == Subs \cap {"unknown", "pending", "denied"} = {}

DeviceCodes == 1..MaxDevices

VARIABLES
  now,         \* the clock
  requests,    \* s.deviceRequests: device code |-> request
  userCodes,   \* s.deviceUserCodes: user code |-> device code
  pages,       \* the user code each open picker page posts, and for whom it
               \*   was shown
  devices,     \* what each device holds: its client, when its codes expire,
               \*   when it polls next, whether it has been punctual, and
               \*   whether a restart lost its authorization
  outcome,     \* the terminal answer each device has been given
  verdict,     \* history variable: the decision on each device code
  handed       \* history variable: the token responses given

storage == <<requests, userCodes>>
vars    == <<now, storage, pages, devices, outcome, verdict, handed>>

Closed == [open |-> FALSE]

TypeOK ==
  /\ now \in Nat
  /\ DOMAIN requests \subseteq DOMAIN devices
  /\ requests \in [DOMAIN requests ->
       [client : Clients, expires : Nat, done : BOOLEAN, denied : BOOLEAN,
        subject : {"nobody"} \cup Subs]]
  /\ DOMAIN userCodes \subseteq UserCodes
  /\ userCodes \in [DOMAIN userCodes -> DOMAIN devices]
  /\ pages \in [Browsers ->
       {Closed} \cup [open : {TRUE}, key : UserCodes, shown : DOMAIN devices]]
  /\ \E n \in 0..MaxDevices : DOMAIN devices = 1..n
  /\ devices \in [DOMAIN devices ->
       [client : Clients, expires : Nat, due : Nat,
        punctual : BOOLEAN, lost : BOOLEAN]]
  /\ outcome \in [DeviceCodes -> {"none", "tokens", "denied", "expired"}]
  /\ verdict \in [DeviceCodes -> {"unknown", "pending", "denied"} \cup Subs]
  /\ handed \subseteq [code : DOMAIN devices, client : Clients, sub : Subs]

Empty == [x \in {} |-> 0]

Init ==
  /\ now = 0
  /\ requests = Empty
  /\ userCodes = Empty
  /\ pages = [b \in Browsers |-> Closed]
  /\ devices = Empty
  /\ outcome = [x \in DeviceCodes |-> "none"]
  /\ verdict = [x \in DeviceCodes |-> "unknown"]
  /\ handed = {}

Put(f, k, v) == [x \in DOMAIN f \cup {k} |-> IF x = k THEN v ELSE f[x]]
Only(f, S) == [x \in DOMAIN f \cap S |-> f[x]]

-----------------------------------------------------------------------------
FaultyKept == {x \in DOMAIN requests : now <= requests[x].expires}   \* no grace

(* pruneDeviceRequestsLocked: the requests past their expiry and the grace *)
(* go, and then every user code whose request is gone.                     *)
Kept == {x \in DOMAIN requests : now <= requests[x].expires + Grace}
FaultyKeptUserCodes == DOMAIN userCodes   \* the user codes are not pruned
KeptUserCodes == {k \in DOMAIN userCodes : userCodes[k] \in Kept}

(* A user code in use is given to the new device as well. *)
FaultyAuthorize(c, key) ==
  LET x == Cardinality(DOMAIN devices) + 1 IN
  /\ x \in DeviceCodes
  /\ now + Lifetime < MaxTime
  /\ requests' = Put(Only(requests, Kept), x,
       [client |-> c, expires |-> now + Lifetime,
        done |-> FALSE, denied |-> FALSE, subject |-> "nobody"])
  /\ userCodes' = Put(Only(userCodes, KeptUserCodes), key, x)
  /\ devices' = Put(devices, x,
       [client |-> c, expires |-> now + Lifetime, due |-> now + Interval,
        punctual |-> TRUE, lost |-> FALSE])
  /\ verdict' = [verdict EXCEPT ![x] = "pending"]
  /\ UNCHANGED <<now, pages, outcome, handed>>

(* The device endpoint: StoreDeviceAuthorization prunes, refuses a user    *)
(* code in use (op then draws another), and registers both codes.          *)
Authorize(c, key) ==
  LET x == Cardinality(DOMAIN devices) + 1 IN
  /\ x \in DeviceCodes
  /\ now + Lifetime < MaxTime
  /\ key \notin KeptUserCodes
  /\ requests' = Put(Only(requests, Kept), x,
       [client |-> c, expires |-> now + Lifetime,
        done |-> FALSE, denied |-> FALSE, subject |-> "nobody"])
  /\ userCodes' = Put(Only(userCodes, KeptUserCodes), key, x)
  /\ devices' = Put(devices, x,
       [client |-> c, expires |-> now + Lifetime, due |-> now + Interval,
        punctual |-> TRUE, lost |-> FALSE])
  /\ verdict' = [verdict EXCEPT ![x] = "pending"]
  /\ UNCHANGED <<now, pages, outcome, handed>>

AuthorizeDuplicate(key) ==
  /\ key \in KeptUserCodes
  /\ requests' = Only(requests, Kept)
  /\ userCodes' = Only(userCodes, KeptUserCodes)
  /\ UNCHANGED <<now, pages, devices, outcome, verdict, handed>>

-----------------------------------------------------------------------------
(* The pages.                                                              *)

(* A code is pending until it is pruned, past its expiry too. *)
FaultyPendingCode(key) ==
  /\ key \in DOMAIN userCodes
  /\ LET q == requests[userCodes[key]] IN ~q.done /\ ~q.denied

(* pendingByUserCodeLocked: found, undecided, not past its expiry.         *)
PendingCode(key) ==
  /\ key \in DOMAIN userCodes
  /\ LET q == requests[userCodes[key]]
     IN  ~q.done /\ ~q.denied /\ now <= q.expires

(* GET /device?user_code=...: the picker is shown for a pending code.      *)
GetDevice(b, key) ==
  /\ PendingCode(key)
  /\ pages' = [pages EXCEPT ![b] =
                 [open |-> TRUE, key |-> key, shown |-> userCodes[key]]]
  /\ UNCHANGED <<now, storage, devices, outcome, verdict, handed>>

(* The form's fields are swapped: the user code is taken for the persona. *)
FaultyApprove(b, sub) ==
  /\ pages[b].open
  /\ PendingCode(pages[b].key)
  /\ LET x == userCodes[pages[b].key] IN
       /\ requests' = [requests EXCEPT ![x].done = TRUE, ![x].subject = pages[b].key]
       /\ verdict' = [verdict EXCEPT ![x] = sub]
  /\ pages' = [pages EXCEPT ![b] = Closed]
  /\ UNCHANGED <<now, userCodes, devices, outcome, handed>>

(* POST /device/select and POST /device/deny: ApproveDevice and DenyDevice *)
(* resolve the posted user code again.                                     *)
Approve(b, sub) ==
  /\ pages[b].open
  /\ PendingCode(pages[b].key)
  /\ LET x == userCodes[pages[b].key] IN
       /\ requests' = [requests EXCEPT ![x].done = TRUE, ![x].subject = sub]
       /\ verdict' = [verdict EXCEPT ![x] = sub]
  /\ pages' = [pages EXCEPT ![b] = Closed]
  /\ UNCHANGED <<now, userCodes, devices, outcome, handed>>

Deny(b) ==
  /\ pages[b].open
  /\ PendingCode(pages[b].key)
  /\ LET x == userCodes[pages[b].key] IN
       /\ requests' = [requests EXCEPT ![x].denied = TRUE]
       /\ verdict' = [verdict EXCEPT ![x] = "denied"]
  /\ pages' = [pages EXCEPT ![b] = Closed]
  /\ UNCHANGED <<now, userCodes, devices, outcome, handed>>

(* A post that is refused renders the code form again.                     *)
RefusedPost(b) ==
  /\ pages[b].open
  /\ ~PendingCode(pages[b].key)
  /\ pages' = [pages EXCEPT ![b] = Closed]
  /\ UNCHANGED <<now, storage, devices, outcome, verdict, handed>>

-----------------------------------------------------------------------------
(* The poll.                                                               *)

(* The client is not compared. *)
FaultyReply(x, c) ==
  IF x \notin DOMAIN requests \/ requests[x].denied THEN "denied"
  ELSE IF requests[x].done THEN "tokens"
  ELSE IF now > requests[x].expires THEN "expired" ELSE "none"

(* An undecided authorization is pending whatever the time. *)
TimelessReply(x, c) ==
  IF x \notin DOMAIN requests \/ requests[x].client # c THEN "denied"
  ELSE IF requests[x].denied THEN "denied"
  ELSE IF requests[x].done THEN "tokens" ELSE "none"

(* GetDeviceAuthorizatonState as op's token endpoint reads it: an error is *)
(* access_denied; a decided state is terminal whatever the time; then the  *)
(* expiry; then authorization_pending.                                     *)
Reply(x, c) ==
  IF x \notin DOMAIN requests \/ requests[x].client # c THEN "denied"
  ELSE IF requests[x].denied THEN "denied"
  ELSE IF requests[x].done THEN "tokens"
  ELSE IF now > requests[x].expires THEN "expired"
  ELSE "none"

Handing(x, c) ==
  handed' = IF Reply(x, c) = "tokens"
              THEN handed \cup {[code |-> x, client |-> c, sub |-> requests[x].subject]}
              ELSE handed

(* The device polls until it has a terminal answer. *)
Poll(x) ==
  LET c == devices[x].client IN
  /\ outcome[x] = "none"
  /\ outcome' = [outcome EXCEPT ![x] = Reply(x, c)]
  /\ devices' = [devices EXCEPT ![x].due = now + Interval]
  /\ Handing(x, c)
  /\ UNCHANGED <<now, storage, pages, verdict>>

(* An answer is lost, or the device asks again all the same: the device    *)
(* code is not consumed by its answer.                                     *)
PollAgain(x) ==
  /\ outcome[x] # "none"
  /\ Handing(x, devices[x].client)
  /\ UNCHANGED <<now, storage, pages, devices, outcome, verdict>>

(* Another client tries a device code that is not its own.                 *)
ForeignPoll(x, c) ==
  /\ c # devices[x].client
  /\ Handing(x, c)
  /\ UNCHANGED <<now, storage, pages, devices, outcome, verdict>>

-----------------------------------------------------------------------------
(* A device that has let its poll interval pass is not punctual any more.  *)
Tick ==
  /\ now < MaxTime
  /\ now' = now + 1
  /\ devices' = [x \in DOMAIN devices |->
       [devices[x] EXCEPT !.punctual = @ /\ now + 1 <= devices[x].due]]
  /\ UNCHANGED <<storage, pages, outcome, verdict, handed>>

(* A restart loses the authorizations; no device can count on them. *)
Restart ==
  /\ requests' = Empty
  /\ userCodes' = Empty
  /\ devices' = [x \in DOMAIN devices |->
       [devices[x] EXCEPT !.punctual = FALSE, !.lost = TRUE]]
  /\ UNCHANGED <<now, pages, outcome, verdict, handed>>

Next ==
  \/ \E c \in Clients, key \in UserCodes : Authorize(c, key)
  \/ \E key \in UserCodes : AuthorizeDuplicate(key)
  \/ \E b \in Browsers :
       \/ \E key \in UserCodes : GetDevice(b, key)
       \/ \E sub \in Subs : Approve(b, sub)
       \/ Deny(b)
       \/ RefusedPost(b)
  \/ \E x \in DOMAIN devices : Poll(x) \/ PollAgain(x) \/ \E c \in Clients : ForeignPoll(x, c)
  \/ Tick
  \/ Restart

Spec == Init /\ [][Next]_vars

(* Time passes, and a device without an answer keeps polling. *)
FairSpec ==
  /\ Spec
  /\ WF_vars(Tick)
  /\ \A x \in DeviceCodes : WF_vars(x \in DOMAIN devices /\ Poll(x))

-----------------------------------------------------------------------------
(* Properties.                                                             *)

(* Every device whose device keeps polling in time is told what the person *)
(* decided, once and for all, although decisions land up to the deadline   *)
(* and other authorizations prune behind it (device.go:112-183).           *)
DG == INSTANCE DeviceGrant
        WITH sure <- {x \in DOMAIN devices : devices[x].punctual}
ImplementsGrant == DG!Spec

(* A user code always leads to a stored request: the pages dereference it  *)
(* unchecked (device.go:146-151), while requests are pruned.               *)
UserCodesResolve ==
  /\ \A k \in DOMAIN userCodes : userCodes[k] \in DOMAIN requests
  /\ \A k, l \in DOMAIN userCodes : userCodes[k] = userCodes[l] => k = l

(* Tokens for a device code reach only the client that asked for it, and   *)
(* name the persona that was approved (device.go:82,93-97,112-123).        *)
TokensAsApproved ==
  \A h \in handed :
    h.client = devices[h.code].client /\ h.sub = verdict[h.code]

(* An answer stands: a device that asks again, because the answer was lost *)
(* or for no reason, is told the same, or is told "denied" once its         *)
(* authorization is past its expiry and grace or lost to a restart         *)
(* (device.go:74-99,143-183).                                              *)
AnswersStand ==
  \A x \in DOMAIN devices : outcome[x] # "none" =>
    \/ Reply(x, devices[x].client) = outcome[x]
    \/ /\ Reply(x, devices[x].client) = "denied"
       /\ devices[x].lost \/ now > devices[x].expires + Grace

(* A page posts a user code, not a device code, and user codes are reused: *)
(* still, what is posted from a page decides the device the page was shown *)
(* for, unless that device's authorization is past its expiry and grace or *)
(* was lost to a restart (device.go:49-59,145-158, login.go:184-191).      *)
PageDecidesShownDevice ==
  [][\A b \in Browsers, x \in DOMAIN devices :
       pages[b].open /\ pages'[b] # pages[b] /\ verdict'[x] # verdict[x] =>
         \/ x = pages[b].shown
         \/ now > devices[pages[b].shown].expires + Grace
         \/ devices[pages[b].shown].lost]_vars

(* No device polls for ever: the expiry ends what nobody decides.          *)
EveryDeviceIsAnswered ==
  \A x \in DeviceCodes : verdict[x] # "unknown" ~> outcome[x] # "none"
==============================================================================
