------------------------- MODULE RefreshTokensProofs -------------------------
(***************************************************************************)
(* Theorems about the RefreshTokenManager, for every lifetime, leeway,     *)
(* number of parsers and bound.                                            *)
(*                                                                         *)
(* The invariant that carries them is Memory: the pruned denylist forgets  *)
(* an entry of the full history only once the entry is older than the      *)
(* ttl.  Everything a token's refusal rests on follows, because a token    *)
(* that is Barred expires no later than its entry.                         *)
(***************************************************************************)
EXTENDS RefreshTokens, TLAPS

(* The denylist agrees with the history on every entry of the last ttl.    *)
Memory ==
  \A id \in DOMAIN history :
    \/ id \in DOMAIN revoked /\ revoked[id] = history[id]
    \/ history[id] + ttl < now

(* A doomed parse that got past the session check owes it to the clock or  *)
(* is doomed by its jti, which the next check looks up.                    *)
Progress(p) ==
  parse[p] # Idle /\ parse[p].doomed =>
    /\ parse[p].stage = "decoded" => Barred(parse[p].token)
    /\ parse[p].stage = "sidClear" =>
         parse[p].token.exp < now \/ Bars(parse[p].token.jti, parse[p].token)
    /\ parse[p].stage = "accepted" => parse[p].token.exp < now

ParseProgress == \A p \in Parsers : Progress(p)

IInv == TypeOK /\ Memory /\ ParseProgress

-----------------------------------------------------------------------------
(* A barred token still within its lifetime is on the denylist itself.     *)
LEMMA BarsMeansRevoked ==
  ASSUME TypeOK, Memory, NEW id, NEW t, t.exp \in Nat, Bars(id, t), now <= t.exp
  PROVE  IsRevoked(id)
<1>1. ttl \in Nat
  BY LifetimesAssumption DEF TypeOK
<1>2. history[id] \in Nat /\ now \in Nat
  BY DEF TypeOK, IsLog, Bars
<1> QED
  BY <1>1, <1>2 DEF Memory, Bars, IsRevoked

-----------------------------------------------------------------------------
(* Every variable keeps its type; in particular every identifier in use    *)
(* has been drawn and no entry is dated in the future.                     *)
LEMMA TypeInit == Init => TypeOK
  BY DEF Init, TypeOK, IsLog, Empty, Parsing

LEMMA TypeNext == TypeOK /\ [Next]_vars => TypeOK'
<1> SUFFICES ASSUME TypeOK, [Next]_vars PROVE TypeOK'
  OBVIOUS
<1> USE LifetimesAssumption
<1>1. CASE Draw
  BY <1>1 DEF TypeOK, IsLog, Token, Parsing, Draw
<1>2. ASSUME NEW sid \in 1..drawn, Issue(sid) PROVE TypeOK'
  BY <1>2 DEF TypeOK, IsLog, Token, Parsing, Issue
<1>3. ASSUME NEW id \in {NoId} \cup 1..drawn, Revoke(id) PROVE TypeOK'
  <2>1. IsLog(Barring(id))
    BY DEF TypeOK, IsLog, Barring
  <2>2. IsLog(Recording(id))
    BY DEF TypeOK, IsLog, Recording
  <2> QED
    BY <1>3, <2>1, <2>2 DEF TypeOK, IsLog, Token, Parsing, Revoke
<1>4. ASSUME NEW p \in Parsers, NEW t \in issued, Decode(p, t) PROVE TypeOK'
  BY <1>4 DEF TypeOK, IsLog, Token, Parsing, Decode, Barred, Bars
<1>5. ASSUME NEW p \in Parsers, CheckSid(p) PROVE TypeOK'
  BY <1>5 DEF TypeOK, IsLog, Token, Parsing, Idle, CheckSid
<1>6. ASSUME NEW p \in Parsers, CheckJti(p) PROVE TypeOK'
  BY <1>6 DEF TypeOK, IsLog, Token, Parsing, Idle, CheckJti
<1>7. ASSUME NEW p \in Parsers, Return(p) PROVE TypeOK'
  BY <1>7 DEF TypeOK, IsLog, Token, Parsing, Return
<1>8. CASE Tick
  BY <1>8 DEF TypeOK, IsLog, Token, Parsing, Tick
<1>9. CASE Restart
  BY <1>9 DEF TypeOK, IsLog, Token, Parsing, Empty, Restart
<1>10. CASE UNCHANGED vars
  BY <1>10 DEF TypeOK, IsLog, Token, Parsing, vars
<1> QED
  BY <1>1, <1>2, <1>3, <1>4, <1>5, <1>6, <1>7, <1>8, <1>9, <1>10 DEF Next

(* Spec keeps TypeOK. *)
THEOREM TypeCorrect == Spec => []TypeOK
  BY TypeInit, TypeNext, PTL DEF Spec

-----------------------------------------------------------------------------
LEMMA MemoryInit == Init => Memory
  BY DEF Init, Memory, Empty

(* Only Revoke prunes, and what it prunes is older than the ttl; the clock *)
(* only makes entries older; a restart empties both maps.                  *)
LEMMA MemoryNext == TypeOK /\ Memory /\ [Next]_vars => Memory'
<1> SUFFICES ASSUME TypeOK, Memory, [Next]_vars PROVE Memory'
  OBVIOUS
<1>0. ttl \in Nat /\ now \in Nat
  BY LifetimesAssumption DEF TypeOK
<1>1. ASSUME NEW id \in {NoId} \cup 1..drawn, Revoke(id) PROVE Memory'
  <2>1. now' = now /\ ttl' = ttl /\ revoked' = Barring(id) /\ history' = Recording(id)
    BY <1>1 DEF Revoke
  <2> SUFFICES ASSUME NEW x \in DOMAIN history'
               PROVE  \/ x \in DOMAIN revoked' /\ revoked'[x] = history'[x]
                      \/ history'[x] + ttl < now
    BY <2>1 DEF Memory
  <2>2. CASE x = id
    BY <2>1, <2>2 DEF Barring, Recording
  <2>3. CASE x # id
    <3>1. x \in DOMAIN history /\ history'[x] = history[x] /\ history[x] \in Nat
      BY <2>1, <2>3 DEF Recording, TypeOK, IsLog
    <3>2. CASE x \in DOMAIN revoked /\ revoked[x] = history[x]
      <4>1. CASE now - revoked[x] <= ttl
        BY <2>1, <2>3, <3>1, <3>2, <4>1 DEF Barring
      <4>2. CASE ~(now - revoked[x] <= ttl)
        BY <1>0, <3>1, <3>2, <4>2
      <4> QED
        BY <4>1, <4>2
    <3> QED
      BY <3>1, <3>2 DEF Memory
  <2> QED
    BY <2>2, <2>3
<1>2. CASE Tick
  <2>1. now' = now + 1 /\ ttl' = ttl /\ revoked' = revoked /\ history' = history
    BY <1>2 DEF Tick
  <2> QED
    BY <1>0, <2>1 DEF Memory, TypeOK, IsLog
<1>3. CASE Restart
  BY <1>3 DEF Restart, Memory, Empty
<1>4. CASE UNCHANGED <<now, ttl, revoked, history>>
  BY <1>4 DEF Memory
<1> QED
  BY <1>1, <1>2, <1>3, <1>4
  DEF Next, vars, Draw, Issue, Decode, CheckSid, CheckJti, Return

-----------------------------------------------------------------------------
(* Within a boot, revoking more or waiting never unbars a token.           *)
LEMMA BarsPersists ==
  ASSUME TypeOK, ttl' = ttl, NEW id, NEW t, t.exp \in Nat, Bars(id, t),
         history' = history \/ \E x \in {NoId} \cup 1..drawn : history' = Recording(x)
  PROVE  Bars(id, t)'
<1>1. ttl \in Nat /\ now \in Nat /\ id \in DOMAIN history /\ history[id] \in 0..now
      /\ t.exp <= history[id] + ttl
  BY LifetimesAssumption DEF TypeOK, IsLog, Bars
<1>2. CASE history' = history
  BY <1>1, <1>2 DEF Bars
<1>3. ASSUME NEW x \in {NoId} \cup 1..drawn, history' = Recording(x) PROVE Bars(id, t)'
  BY <1>1, <1>3 DEF Bars, Recording
<1> QED
  BY <1>2, <1>3

LEMMA ParseInit == Init => ParseProgress
  BY DEF Init, ParseProgress, Progress

(* A doomed token cannot slip between the two denylist reads: whichever    *)
(* identifier bars it stays barred while the parse runs, and the read that *)
(* looks it up misses it only when the token itself has expired.           *)
LEMMA ParseNext == IInv /\ [Next]_vars => ParseProgress'
<1> SUFFICES ASSUME IInv, [Next]_vars, NEW q \in Parsers PROVE Progress(q)'
  BY DEF ParseProgress
<1>0. TypeOK /\ Memory /\ Progress(q) /\ now \in Nat /\ parse \in [Parsers -> Parsing]
  BY DEF IInv, TypeOK, ParseProgress
<1> DEFINE t == parse[q].token
<1>a. parse[q] # Idle =>
        /\ parse[q].stage \in {"decoded", "sidClear", "accepted"}
        /\ parse[q] = [stage |-> parse[q].stage, token |-> t, doomed |-> parse[q].doomed]
        /\ t.exp \in Nat
  BY <1>0 DEF Parsing, Token
(* Steps that leave q's parse and the boot alone. *)
<1>b. ASSUME parse'[q] = parse[q], ttl' = ttl, now' = now \/ now' = now + 1,
             history' = history \/ \E x \in {NoId} \cup 1..drawn : history' = Recording(x)
      PROVE  Progress(q)'
  <2> SUFFICES ASSUME parse[q] # Idle, parse[q].doomed
               PROVE  /\ parse[q].stage = "decoded" => Barred(t)'
                      /\ parse[q].stage = "sidClear" => t.exp < now' \/ Bars(t.jti, t)'
                      /\ parse[q].stage = "accepted" => t.exp < now'
    <3>1. Barred(parse[q].token)' <=> Barred(t)'
      BY <1>b DEF Barred, Bars
    <3>2. Bars(parse[q].token.jti, parse[q].token)' <=> Bars(t.jti, t)'
      BY <1>b DEF Bars
    <3> QED
      BY <1>b, <3>1, <3>2 DEF Progress, Idle
  <2>1. t.exp \in Nat
    BY <1>a
  <2>2. t.exp < now => t.exp < now'
    BY <1>0, <1>b, <2>1
  <2>3. /\ parse[q].stage = "decoded" => Barred(t)
        /\ parse[q].stage = "sidClear" => t.exp < now \/ Bars(t.jti, t)
        /\ parse[q].stage = "accepted" => t.exp < now
    BY <1>0 DEF Progress
  <2>4. Bars(t.jti, t) => Bars(t.jti, t)'
    BY <1>0, <1>b, <2>1, BarsPersists DEF Bars
  <2>5. Barred(t) => Barred(t)'
    BY <1>0, <1>b, <2>1, BarsPersists DEF Barred, Bars
  <2> QED
    BY <2>2, <2>3, <2>4, <2>5
<1>1. ASSUME NEW u \in issued, Decode(q, u) PROVE Progress(q)'
  <2>1. /\ parse'[q] = [stage |-> "decoded", token |-> u, doomed |-> Barred(u)]
        /\ ttl' = ttl /\ history' = history
    BY <1>0, <1>1 DEF Decode
  <2>2. /\ parse'[q].stage = "decoded" /\ parse'[q].token = u
        /\ parse'[q].doomed = Barred(u)
    BY <2>1
  <2>3. Barred(u) => Barred(parse[q].token)'
    BY <2>1, <2>2 DEF Barred, Bars
  <2> QED
    BY <2>2, <2>3 DEF Progress
<1>2. ASSUME CheckSid(q) PROVE Progress(q)'
  <2>1. CASE IsRevoked(t.sid)
    BY <1>0, <1>2, <2>1 DEF CheckSid, Progress
  <2>2. CASE ~IsRevoked(t.sid)
    <3>1. /\ parse[q].stage = "decoded" /\ parse[q] # Idle
          /\ ttl' = ttl /\ history' = history /\ now' = now
      BY <1>2 DEF CheckSid, Idle
    <3>2. parse'[q] = [stage |-> "sidClear", token |-> t, doomed |-> parse[q].doomed]
      BY <1>0, <1>2, <1>a, <2>2, <3>1 DEF CheckSid
    <3>3. parse[q].doomed => Barred(t)
      BY <1>0, <3>1 DEF Progress
    <3>4. parse[q].doomed => t.exp < now \/ Bars(t.jti, t)
      BY <1>0, <1>a, <2>2, <3>1, <3>3, BarsMeansRevoked DEF Barred
    <3> QED
      BY <3>1, <3>2, <3>4 DEF Progress, Bars
  <2> QED
    BY <2>1, <2>2
<1>3. ASSUME CheckJti(q) PROVE Progress(q)'
  <2>1. CASE IsRevoked(t.jti)
    BY <1>0, <1>3, <2>1 DEF CheckJti, Progress
  <2>2. CASE ~IsRevoked(t.jti)
    <3>1. parse[q].stage = "sidClear" /\ parse[q] # Idle /\ now' = now
      BY <1>3 DEF CheckJti, Idle
    <3>2. parse'[q] = [stage |-> "accepted", token |-> t, doomed |-> parse[q].doomed]
      BY <1>0, <1>3, <1>a, <2>2, <3>1 DEF CheckJti
    <3>3. parse[q].doomed => t.exp < now \/ Bars(t.jti, t)
      BY <1>0, <3>1 DEF Progress
    <3>4. parse[q].doomed => t.exp < now
      BY <1>0, <1>a, <2>2, <3>1, <3>3, BarsMeansRevoked
    <3> QED
      BY <3>1, <3>2, <3>4 DEF Progress
  <2> QED
    BY <2>1, <2>2
<1>4. CASE Return(q) \/ Restart
  BY <1>0, <1>4 DEF Return, Restart, Progress
<1>5. ASSUME NEW p \in Parsers, p # q,
             \/ \E u \in issued : Decode(p, u)
             \/ CheckSid(p) \/ CheckJti(p) \/ Return(p)
      PROVE  Progress(q)'
  <2>1. parse'[q] = parse[q] /\ ttl' = ttl /\ now' = now /\ history' = history
    BY <1>0, <1>5 DEF Decode, CheckSid, CheckJti, Return
  <2> QED
    BY <2>1, <1>b
<1>6. CASE \/ Draw \/ Tick \/ UNCHANGED vars
           \/ \E sid \in 1..drawn : Issue(sid)
           \/ \E id \in {NoId} \cup 1..drawn : Revoke(id)
  BY <1>6, <1>b DEF Draw, Tick, vars, Issue, Revoke
<1> QED
  BY <1>1, <1>2, <1>3, <1>4, <1>5, <1>6 DEF Next

LEMMA Inductive == Spec => []IInv
<1>1. Init => IInv
  BY TypeInit, MemoryInit, ParseInit DEF IInv
<1>2. IInv /\ [Next]_vars => IInv'
  BY TypeNext, MemoryNext, ParseNext DEF IInv
<1> QED
  BY <1>1, <1>2, PTL DEF Spec

-----------------------------------------------------------------------------
(* Whatever the lifetimes, the leeway and the order of revocations, a      *)
(* revoked token is refused through its own expiry: pruning the denylist   *)
(* (tokens.go:144-146) never gives it back.                                *)
THEOREM RevocationHolds == Spec => []RevokedUntilExpiry
<1>1. IInv => RevokedUntilExpiry
  <2> SUFFICES ASSUME IInv, NEW t \in issued, Barred(t), now <= t.exp
               PROVE  ~Accepts(t)
    BY DEF RevokedUntilExpiry
  <2>1. t.exp \in Nat
    BY DEF IInv, TypeOK, Token
  <2> QED
    BY <2>1, BarsMeansRevoked DEF IInv, Barred, Accepts
<1> QED
  BY <1>1, Inductive, PTL

(* And a Parse that overlaps anything else honours every revocation that   *)
(* precedes it, however its three steps are interleaved with Revoke.       *)
THEOREM ParseSound == Spec => []ParseHonoursRevocation
<1>1. IInv => ParseHonoursRevocation
  BY DEF IInv, ParseProgress, Progress, ParseHonoursRevocation, Idle
<1> QED
  BY <1>1, Inductive, PTL
==============================================================================
