----------------------------- MODULE DeviceGrant -----------------------------
(***************************************************************************)
(* What the device authorization grant promises, with no clock, user codes *)
(* or pruning in sight: a person decides each authorization at most once,  *)
(* and the device learns that decision and nothing else.  The promise is   *)
(* for the devices in `sure`; one that stops polling in time, or whose     *)
(* server restarts, is forsaken and may be told "denied" whatever was      *)
(* decided (device.go:160-167: "a pruned request degrades to               *)
(* access_denied").                                                        *)
(***************************************************************************)
CONSTANTS
  DeviceCodes,
  Subs

VARIABLES
  verdict,   \* the person's decision on each device code
  outcome,   \* the terminal answer its device has been given
  sure       \* the device codes whose device is promised the verdict

vars == <<verdict, outcome, sure>>

Verdicts == {"unknown", "pending", "denied"} \cup Subs
Outcomes == {"none", "tokens", "denied", "expired"}

Init ==
  /\ verdict = [x \in DeviceCodes |-> "unknown"]
  /\ outcome = [x \in DeviceCodes |-> "none"]
  /\ sure = {}

Start(x) ==
  /\ verdict[x] = "unknown"
  /\ verdict' = [verdict EXCEPT ![x] = "pending"]
  /\ sure' = sure \cup {x}
  /\ UNCHANGED outcome

(* Approve for a persona, or deny; once, and before the device gives up.   *)
Decide(x, v) ==
  /\ verdict[x] = "pending"
  /\ outcome[x] = "none"
  /\ v \in Subs \cup {"denied"}
  /\ verdict' = [verdict EXCEPT ![x] = v]
  /\ UNCHANGED <<outcome, sure>>

(* The answer agrees with the verdict; "expired" means there was none. *)
Answer(x) ==
  /\ outcome[x] = "none"
  /\ \/ verdict[x] \in Subs /\ outcome' = [outcome EXCEPT ![x] = "tokens"]
     \/ verdict[x] = "denied" /\ outcome' = [outcome EXCEPT ![x] = "denied"]
     \/ verdict[x] = "pending" /\ outcome' = [outcome EXCEPT ![x] = "expired"]
  /\ UNCHANGED <<verdict, sure>>

Forsake(S) ==
  /\ sure' = sure \ S
  /\ UNCHANGED <<verdict, outcome>>

Misreport(x) ==
  /\ x \notin sure
  /\ verdict[x] # "unknown"
  /\ outcome[x] = "none"
  /\ outcome' = [outcome EXCEPT ![x] = "denied"]
  /\ UNCHANGED <<verdict, sure>>

Next ==
  \/ \E x \in DeviceCodes :
       \/ Start(x)
       \/ \E v \in Subs \cup {"denied"} : Decide(x, v)
       \/ Answer(x)
       \/ Misreport(x)
  \/ \E S \in SUBSET DeviceCodes : Forsake(S)

Spec == Init /\ [][Next]_vars
==============================================================================
