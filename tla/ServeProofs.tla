----------------------------- MODULE ServeProofs -----------------------------
(***************************************************************************)
(* Proofs about Serve, for every set of configuration files, every disk    *)
(* and any number of requests.                                             *)
(***************************************************************************)
EXTENDS Serve, ConfigurationProofs

-----------------------------------------------------------------------------
(* What the handlers answer.                                               *)

GoodReply(h, wants) ==
  /\ DOMAIN h = {"status", "ctype", "cache", "length", "chunks"}
  /\ h.status \in {200, 206, 301, 304, 404, 500}
  /\ h.cache \in {"none", "max-age"}
  /\ h.chunks \in Nat
  /\ h.length \in {NoLength, h.chunks}
  /\ bodyless(h.status) => h.chunks = 0
  /\ h.status = 206 => wants = "range"

LEMMA FileRepliesAreGood ==
  ASSUME NEW q, NEW ctype
  PROVE  GoodReply(FileReply(ctype, q), q.wants)
BY DEF GoodReply, FileReply, Reply, bodyless, NoLength

LEMMA OtherRepliesAreGood ==
  ASSUME NEW wants
  PROVE  /\ GoodReply(Reply(301, "text/html", "none", NoLength, 1), wants)
         /\ GoodReply(Reply(301, "none", "max-age", NoLength, 0), wants)
         /\ GoodReply(Reply(404, "text/plain", "none", NoLength, 1), wants)
         /\ GoodReply(Reply(404, "text/plain", "max-age", NoLength, 1), wants)
         /\ GoodReply(Reply(200, "text/html", "none", NoLength, 1), wants)
         /\ GoodReply(Reply(200, "text/plain", "none", NoLength, 1), wants)
         /\ GoodReply(Reply(500, "text/plain", "none", NoLength, 1), wants)
BY DEF GoodReply, Reply, bodyless, NoLength

LEMMA AnswersAreGood ==
  ASSUME NEW q, q.kind \in {"asset", "page", "up"}, NEW reply \in Answers(q)
  PROVE  GoodReply(reply, q.wants)
<1>1. CASE q.kind = "asset"
  <2> DEFINE ctype == Disk[cfg.paths[<<q.path[1]>>]][Clean(Tail(q.path))]
  <2>1. reply \in {Reply(301, "text/html", "none", NoLength, 1),
                   Reply(404, "text/plain", "none", NoLength, 1),
                   Reply(404, "text/plain", "max-age", NoLength, 1),
                   Reply(301, "none", "max-age", NoLength, 0),
                   FileReply(ctype, q)}
    BY <1>1 DEF Answers, AssetReply
  <2> HIDE DEF ctype
  <2> QED BY <2>1, FileRepliesAreGood, OtherRepliesAreGood
<1>2. CASE q.kind \in {"page", "up"}
  BY <1>2, OtherRepliesAreGood DEF Answers, Rendered
<1> QED BY <1>1, <1>2

-----------------------------------------------------------------------------
(* The responses: what is true of one at each stage.                       *)

Unsent(q) ==
  /\ GoodReply(q.header, q.wants)
  /\ q.vary = (IF AcceptsGzip(q) THEN "Accept-Encoding" ELSE "none")
  /\ q.encoding = "none" /\ q.plain = 0 /\ q.zipped = 0 /\ q.trailer = "none"

Sent(q) ==
  /\ q.trailer = "none"
  /\ bodyless(q.header.status) => q.header.chunks = 0 /\ q.plain = 0 /\ q.zipped = 0
  /\ q.header.cache # "none" => q.header.status < 400
  /\ IF q.encoding = "gzip"
       THEN q.plain = 0 /\ q.vary = "Accept-Encoding" /\ q.header.length = NoLength /\ q.header.status # 206
       ELSE q.zipped = 0 /\ q.header.length \in {NoLength, q.plain + q.header.chunks}

GoodResponse(q) ==
  /\ IsResponse(q)
  /\ q.at = "begun" => Unsent(q)
  /\ q.at = "sending" => Sent(q)
  /\ q.at = "done" => HonestResponse(q)

ResponsesInv ==
  /\ DOMAIN reqs = Requests
  /\ \A n \in Requests : reqs[n] = Idle \/ GoodResponse(reqs[n])

LEMMA BegunIsGood ==
  ASSUME NEW q, q.kind \in {"asset", "page", "up"}, q.wants \in Wants,
         NEW reply \in Answers(q)
  PROVE  GoodResponse(Begun(q, reply)) /\ Begun(q, reply).at = "begun"
<1>1. GoodReply(reply, q.wants)
  BY AnswersAreGood
<1> QED BY <1>1 DEF GoodResponse, IsResponse, Unsent, Begun, GoodReply, AcceptsGzip, NoLength

LEMMA HeaderSentIsGood ==
  ASSUME NEW q, GoodResponse(q), q.at = "begun"
  PROVE  GoodResponse(HeaderSent(q)) /\ HeaderSent(q).at = "sending"
<1> DEFINE h == HeaderSent(q)
<1>1. IsResponse(q) /\ Unsent(q)
  BY DEF GoodResponse
<1>a. /\ DOMAIN q = {"at", "kind", "origin", "path", "wants", "vary", "header",
                     "encoding", "plain", "zipped", "trailer"}
      /\ DOMAIN q.header = {"status", "ctype", "cache", "length", "chunks"}
      /\ q.header.cache \in {"none", "max-age"} /\ q.encoding = "none"
  BY <1>1 DEF IsResponse, Unsent
<1>b. /\ DOMAIN h = DOMAIN q
      /\ h.at = "sending" /\ h.kind = q.kind /\ h.wants = q.wants /\ h.vary = q.vary
      /\ h.plain = q.plain /\ h.zipped = q.zipped /\ h.trailer = q.trailer
      /\ h.encoding = IF Compresses(q) THEN "gzip" ELSE "none"
      /\ h.header = [Uncached(q.header) EXCEPT !.length = IF Compresses(q) THEN NoLength ELSE @]
  BY <1>a DEF HeaderSent
<1>c. /\ DOMAIN Uncached(q.header) = DOMAIN q.header
      /\ Uncached(q.header).status = q.header.status
      /\ Uncached(q.header).chunks = q.header.chunks
      /\ Uncached(q.header).length = q.header.length
      /\ Uncached(q.header).cache \in {"none", "max-age"}
      /\ Uncached(q.header).cache # "none" => q.header.status < 400
  BY <1>a DEF Uncached
<1> HIDE DEF h
<1>2. /\ DOMAIN h = DOMAIN q /\ DOMAIN h.header = DOMAIN q.header
      /\ h.at = "sending" /\ h.kind = q.kind /\ h.wants = q.wants /\ h.vary = q.vary
      /\ h.plain = q.plain /\ h.zipped = q.zipped /\ h.trailer = q.trailer
      /\ h.header.status = q.header.status /\ h.header.chunks = q.header.chunks
      /\ h.header.cache \in {"none", "max-age"} /\ (h.header.cache # "none" => q.header.status < 400)
      /\ h.header.length = IF Compresses(q) THEN NoLength ELSE q.header.length
      /\ h.encoding = IF Compresses(q) THEN "gzip" ELSE "none"
  BY <1>a, <1>b, <1>c
<1>3. IsResponse(h)
  BY <1>1, <1>2 DEF IsResponse, NoLength
<1>4. Compresses(q) => q.wants # "range" /\ q.vary = "Accept-Encoding"
  BY <1>1 DEF Compresses, AcceptsGzip, Unsent
<1>5. Sent(h)
  BY <1>1, <1>2, <1>4 DEF Sent, Unsent, GoodReply, IsResponse, NoLength
<1>6. GoodResponse(h)
  BY <1>2, <1>3, <1>5 DEF GoodResponse
<1> QED BY <1>2, <1>6 DEF h

LEMMA WrittenIsGood ==
  ASSUME NEW q, GoodResponse(q), q.at = "sending", q.header.chunks > 0
  PROVE  GoodResponse(Written(q)) /\ Written(q).at = "sending"
<1> DEFINE r == Written(q)
<1>1. IsResponse(q) /\ Sent(q)
  BY DEF GoodResponse
<1>a. /\ DOMAIN q = {"at", "kind", "origin", "path", "wants", "vary", "header",
                     "encoding", "plain", "zipped", "trailer"}
      /\ DOMAIN q.header = {"status", "ctype", "cache", "length", "chunks"}
  BY <1>1 DEF IsResponse
<1>b. /\ DOMAIN r = DOMAIN q
      /\ r.at = q.at /\ r.kind = q.kind /\ r.wants = q.wants /\ r.vary = q.vary
      /\ r.encoding = q.encoding /\ r.trailer = q.trailer
      /\ r.plain = IF q.encoding = "gzip" THEN q.plain ELSE q.plain + 1
      /\ r.zipped = IF q.encoding = "gzip" THEN q.zipped + 1 ELSE q.zipped
      /\ r.header = [q.header EXCEPT !.chunks = @ - 1]
  BY <1>a DEF Written
<1> HIDE DEF r
<1>c. /\ DOMAIN r.header = DOMAIN q.header
      /\ r.header.status = q.header.status /\ r.header.cache = q.header.cache
      /\ r.header.length = q.header.length /\ r.header.chunks = q.header.chunks - 1
  BY <1>a, <1>b
<1>2. r.header.chunks \in Nat /\ r.plain \in Nat /\ r.zipped \in Nat
  BY <1>1, <1>b, <1>c DEF IsResponse
<1>3. IsResponse(r)
  BY <1>1, <1>b, <1>c, <1>2 DEF IsResponse
<1>4. Sent(r)
  BY <1>1, <1>b, <1>c, <1>2 DEF Sent, IsResponse, NoLength
<1> QED BY <1>b, <1>3, <1>4 DEF GoodResponse, r

LEMMA ReturnedIsGood ==
  ASSUME NEW q, GoodResponse(q), q.at = "sending", q.header.chunks = 0
  PROVE  GoodResponse(Returned(q)) /\ Returned(q).at = "done"
<1> DEFINE r == Returned(q)
<1>1. IsResponse(q) /\ Sent(q)
  BY DEF GoodResponse
<1>a. DOMAIN q = {"at", "kind", "origin", "path", "wants", "vary", "header",
                  "encoding", "plain", "zipped", "trailer"}
  BY <1>1 DEF IsResponse
<1>2. /\ DOMAIN r = DOMAIN q /\ r.header = q.header
      /\ r.at = "done" /\ r.kind = q.kind /\ r.wants = q.wants /\ r.vary = q.vary
      /\ r.encoding = q.encoding /\ r.trailer = q.encoding
      /\ r.plain = q.plain /\ r.zipped = q.zipped
  BY <1>a DEF Returned
<1> HIDE DEF r
<1>3. IsResponse(r)
  BY <1>1, <1>2 DEF IsResponse
<1>4. HonestResponse(r)
  BY <1>1, <1>2 DEF Sent, HonestResponse, IsResponse, NoLength
<1> QED BY <1>2, <1>3, <1>4 DEF GoodResponse, r

LEMMA ResponsesInductive == ResponsesInv /\ [Next]_vars => ResponsesInv'
<1> SUFFICES ASSUME ResponsesInv, [Next]_vars PROVE ResponsesInv'
  OBVIOUS
<1> USE DEF ResponsesInv
<1>1. ASSUME NEW n \in Requests, NEW r, GoodResponse(r), reqs' = [reqs EXCEPT ![n] = r]
      PROVE  ResponsesInv'
  BY <1>1
<1>2. CASE UNCHANGED reqs
  BY <1>2
<1>3. ASSUME NEW n \in Requests, NEW q \in Asked, Accept(n, q)
      PROVE  ResponsesInv'
  <2>1. q.kind \in {"asset", "page", "up"} /\ q.wants \in Wants
    BY DEF Asked, Wants
  <2>2. PICK reply \in Answers(q) : reqs' = [reqs EXCEPT ![n] = Begun(q, reply)]
    BY <1>3 DEF Accept
  <2> QED BY <2>1, <2>2, BegunIsGood, <1>1
<1>4. ASSUME NEW n \in Requests, FollowRedirect(n)
      PROVE  ResponsesInv'
  <2> DEFINE q == [reqs[n] EXCEPT !.path = RedirectedTo(cfg, @)]
  <2>1. reqs[n].at = "done"
    BY <1>4 DEF FollowRedirect
  <2>2. IsResponse(reqs[n])
    BY <2>1 DEF GoodResponse, Idle
  <2>3. q.kind = reqs[n].kind /\ q.wants = reqs[n].wants
    BY <2>2 DEF IsResponse
  <2>4. q.kind \in {"asset", "page", "up"} /\ q.wants \in Wants
    BY <2>2, <2>3 DEF IsResponse
  <2>5. PICK reply \in Answers(q) : reqs' = [reqs EXCEPT ![n] = Begun(q, reply)]
    BY <1>4 DEF FollowRedirect
  <2> HIDE DEF q
  <2> QED BY <2>4, <2>5, BegunIsGood, <1>1
<1>5. ASSUME NEW n \in Requests, WriteHeader(n)
      PROVE  ResponsesInv'
  <2>1. reqs[n].at = "begun" /\ reqs' = [reqs EXCEPT ![n] = HeaderSent(reqs[n])]
    BY <1>5 DEF WriteHeader
  <2>2. GoodResponse(reqs[n])
    BY <2>1 DEF Idle
  <2> QED BY <2>1, <2>2, HeaderSentIsGood, <1>1
<1>6. ASSUME NEW n \in Requests, Write(n)
      PROVE  ResponsesInv'
  <2>1. reqs[n].at = "sending" /\ reqs' = [reqs EXCEPT ![n] = Written(reqs[n])]
    BY <1>6 DEF Write
  <2>2. GoodResponse(reqs[n])
    BY <2>1 DEF Idle
  <2>3. GoodResponse(Written(reqs[n]))
    BY <1>6, <2>1, <2>2, WrittenIsGood DEF Write
  <2> QED BY <2>1, <2>3, <1>1
<1>7. ASSUME NEW n \in Requests, Return(n)
      PROVE  ResponsesInv'
  <2>1. reqs[n].at = "sending" /\ reqs' = [reqs EXCEPT ![n] = Returned(reqs[n])]
    BY <1>7 DEF Return
  <2>2. GoodResponse(reqs[n])
    BY <2>1 DEF Idle
  <2>3. GoodResponse(Returned(reqs[n]))
    BY <1>7, <2>1, <2>2, ReturnedIsGood DEF Return
  <2> QED BY <2>1, <2>3, <1>1
<1>8. CASE Exit
  <2> SUFFICES ASSUME NEW n \in Requests
               PROVE  reqs'[n] = Idle \/ GoodResponse(reqs'[n])
    BY <1>8 DEF Exit
  <2>1. CASE n \notin InFlight
    BY <1>8, <2>1 DEF Exit
  <2>2. CASE n \in InFlight
    <3>1. reqs'[n] = [reqs[n] EXCEPT !.at = "cut"] /\ IsResponse(reqs[n])
      BY <1>8, <2>2 DEF Exit, InFlight, Idle, GoodResponse
    <3>2. IsResponse(reqs'[n]) /\ reqs'[n].at = "cut"
      BY <3>1 DEF IsResponse
    <3> QED BY <3>2 DEF GoodResponse
  <2> QED BY <2>1, <2>2
<1> QED BY <1>2, <1>3, <1>4, <1>5, <1>6, <1>7, <1>8
     DEF Next, Main, vars, LoadConfig, Build, SelectServeErr, SelectDone, Drained,
         DrainTimesOut, Signal, Listen, ListenerCloses, AcceptFails

(* Every response is honest when it has been sent.                         *)
THEOREM ResponsesAreHonest == Spec => []HonestResponses
<1>1. Init => ResponsesInv
  BY DEF Init, ResponsesInv
<1>2. ResponsesInv => HonestResponses
  BY DEF ResponsesInv, HonestResponses, GoodResponse, Idle
<1> QED BY <1>1, <1>2, ResponsesInductive, PTL DEF Spec

-----------------------------------------------------------------------------
(* The shutdown.  A process that is to exit with 0 has been through the    *)
(* drain, after which the listener accepts nothing and no request is in    *)
(* flight; and only the exit itself cuts a response short.                 *)

Requested == \A n \in Requests : reqs[n].at \in {"idle", "begun", "sending", "done", "cut"}

BeforeDrain ==
  main \in {"loading", "building", "selecting"} => ~inShutdown /\ result = "none"

AfterDrain ==
  result = "ok" => /\ signalled /\ inShutdown /\ listener \notin {"accepting"}
                   /\ main \in {"returned", "exited"}
                   /\ InFlight = {}
                   /\ \A n \in Requests : reqs[n].at # "cut"

DrainInv ==
  /\ ResponsesInv
  /\ BeforeDrain
  /\ main = "draining" => signalled /\ inShutdown /\ result = "none"
  /\ serveErr = "closed" => inShutdown
  /\ main # "exited" => \A n \in Requests : reqs[n].at # "cut"
  /\ AfterDrain

LEMMA Stages ==
  ASSUME ResponsesInv
  PROVE  Requested
BY DEF ResponsesInv, Requested, GoodResponse, IsResponse, Idle

LEMMA RequestsKeepDraining ==
  ASSUME DrainInv, NEW n \in Requests, ResponsesInv',
         UNCHANGED <<process, listener, serveErr>>,
         main # "exited",
         \/ listener = "accepting"
         \/ n \in InFlight,
         NEW r, r.at # "cut", reqs' = [reqs EXCEPT ![n] = r]
  PROVE  DrainInv'
<1>1. result # "ok"
  BY DEF DrainInv, AfterDrain
<1>2. DOMAIN reqs = Requests
  BY DEF DrainInv, ResponsesInv
<1>3. \A m \in Requests : reqs'[m].at # "cut"
  BY <1>2 DEF DrainInv
<1> QED BY <1>1, <1>3 DEF DrainInv, BeforeDrain, AfterDrain, process

LEMMA DrainInductive == DrainInv /\ [Next]_vars => DrainInv'
<1> SUFFICES ASSUME DrainInv, [Next]_vars PROVE DrainInv'
  OBVIOUS
<1>1. ResponsesInv /\ ResponsesInv'
  BY ResponsesInductive DEF DrainInv
<1>2. DOMAIN reqs = Requests
  BY <1>1 DEF ResponsesInv
<1> USE DEF BeforeDrain, AfterDrain, InFlight
<1>3. CASE UNCHANGED vars
  BY <1>1, <1>3 DEF DrainInv, vars, process
<1>4. CASE LoadConfig
  BY <1>1, <1>4 DEF DrainInv, LoadConfig
<1>5. CASE Build
  BY <1>1, <1>5 DEF DrainInv, Build
<1>6. CASE SelectServeErr
  <2>1. serveErr # "closed" /\ result' = "error"
    BY <1>6 DEF DrainInv, SelectServeErr
  <2> QED BY <1>1, <1>6, <2>1 DEF DrainInv, SelectServeErr
<1>7. CASE SelectDone
  BY <1>1, <1>7 DEF DrainInv, SelectDone
<1>8. CASE Drained
  BY <1>1, <1>8 DEF DrainInv, Drained
<1>9. CASE DrainTimesOut
  BY <1>1, <1>9 DEF DrainInv, DrainTimesOut
<1>10. CASE Exit
  <2>1. result = "ok" => \A n \in Requests : reqs'[n] = reqs[n]
    BY <1>2, <1>10 DEF Exit, DrainInv
  <2> QED BY <1>1, <1>10, <2>1 DEF DrainInv, Exit
<1>11. CASE Signal
  BY <1>1, <1>11 DEF DrainInv, Signal
<1>12. CASE Listen
  BY <1>1, <1>12 DEF DrainInv, Listen, process
<1>13. CASE ListenerCloses
  BY <1>1, <1>13 DEF DrainInv, ListenerCloses, process
<1>14. CASE AcceptFails
  BY <1>1, <1>14 DEF DrainInv, AcceptFails, process
<1>15. ASSUME NEW n \in Requests, NEW q \in Asked, Accept(n, q) PROVE DrainInv'
  <2>1. PICK reply \in Answers(q) : reqs' = [reqs EXCEPT ![n] = Begun(q, reply)]
    BY <1>15 DEF Accept
  <2>2. Begun(q, reply).at # "cut"
    BY DEF Begun
  <2> QED BY <1>1, <1>2, <1>15, <2>1, <2>2, RequestsKeepDraining DEF Accept
<1>16. ASSUME NEW n \in Requests, FollowRedirect(n) PROVE DrainInv'
  <2> DEFINE q == [reqs[n] EXCEPT !.path = RedirectedTo(cfg, @)]
  <2>1. PICK reply \in Answers(q) : reqs' = [reqs EXCEPT ![n] = Begun(q, reply)]
    BY <1>16 DEF FollowRedirect
  <2> HIDE DEF q
  <2>2. Begun(q, reply).at # "cut"
    BY DEF Begun
  <2>3. main # "exited" /\ listener = "accepting" /\ UNCHANGED <<process, listener, serveErr>>
    BY <1>16 DEF FollowRedirect
  <2> QED BY <1>1, <2>1, <2>2, <2>3, RequestsKeepDraining
<1>17. ASSUME NEW n \in Requests, WriteHeader(n) PROVE DrainInv'
  <2>1. reqs' = [reqs EXCEPT ![n] = HeaderSent(reqs[n])] /\ n \in InFlight
    BY <1>17 DEF WriteHeader
  <2>2. GoodResponse(reqs[n]) /\ reqs[n].at = "begun"
    BY <1>1, <1>17 DEF WriteHeader, ResponsesInv, Idle
  <2>3. HeaderSent(reqs[n]).at # "cut"
    BY <2>2, HeaderSentIsGood
  <2> QED BY <1>1, <1>2, <1>17, <2>1, <2>3, RequestsKeepDraining DEF WriteHeader
<1>18. ASSUME NEW n \in Requests, Write(n) PROVE DrainInv'
  <2>1. reqs' = [reqs EXCEPT ![n] = Written(reqs[n])] /\ n \in InFlight
    BY <1>18 DEF Write
  <2>2. GoodResponse(reqs[n]) /\ reqs[n].at = "sending"
    BY <1>1, <1>18 DEF Write, ResponsesInv, Idle
  <2>3. Written(reqs[n]).at # "cut"
    BY <1>18, <2>2, WrittenIsGood DEF Write
  <2>4. main # "exited" /\ UNCHANGED <<process, listener, serveErr>>
    BY <1>18 DEF Write
  <2> QED BY <1>1, <2>1, <2>3, <2>4, RequestsKeepDraining
<1>19. ASSUME NEW n \in Requests, Return(n) PROVE DrainInv'
  <2>1. reqs' = [reqs EXCEPT ![n] = Returned(reqs[n])] /\ n \in InFlight
    BY <1>19 DEF Return
  <2>2. GoodResponse(reqs[n]) /\ reqs[n].at = "sending"
    BY <1>1, <1>19 DEF Return, ResponsesInv, Idle
  <2>3. Returned(reqs[n]).at # "cut"
    BY <1>19, <2>2, ReturnedIsGood DEF Return
  <2>4. main # "exited" /\ UNCHANGED <<process, listener, serveErr>>
    BY <1>19 DEF Return
  <2> QED BY <1>1, <2>1, <2>3, <2>4, RequestsKeepDraining
<1> QED BY <1>3, <1>4, <1>5, <1>6, <1>7, <1>8, <1>9, <1>10, <1>11, <1>12, <1>13, <1>14,
           <1>15, <1>16, <1>17, <1>18, <1>19 DEF Next, Main

(* Exit code 0 follows a signal and cuts no response short.                *)
THEOREM ShutdownIsGraceful == Spec => []GracefulMeansDrained
<1>1. Init => DrainInv
  BY DEF Init, DrainInv, ResponsesInv, BeforeDrain, AfterDrain, Idle
<1>2. DrainInv => GracefulMeansDrained
  BY Stages DEF DrainInv, AfterDrain, GracefulMeansDrained, Requested, InFlight
<1> QED BY <1>1, <1>2, DrainInductive, PTL DEF Spec

-----------------------------------------------------------------------------
(* The configuration.  Loading leaves the tokens of the personas as they    *)
(* were validated, and their subs but for references.                      *)

LEMMA NormalisedKeeps ==
  ASSUME NEW f, Parsed(f)
  PROVE  LET c == Normalised(f) IN
         /\ DOMAIN c = Fields
         /\ c.personas = f.personas /\ c.groups = f.groups
         /\ c.lifetimes = [t \in Tokens |-> IF f.lifetimes[t] = 0 THEN DefaultLifetime[t]
                                           ELSE f.lifetimes[t]]
BY DEF Parsed, Normalised, Fields

LEMMA LoadKeeps ==
  ASSUME NEW f, Parsed(f)
  PROVE  LET c == Normalised(f)
             r == Load(f)
         IN  /\ DOMAIN r.personas = DOMAIN f.personas
             /\ \A i \in DOMAIN f.personas :
                  /\ r.personas[i].tokens = f.personas[i].tokens
                  /\ r.personas[i].sub = rewriteValue(c, f.personas[i].sub)
             /\ r.lifetimes = c.lifetimes
             /\ r.paths = c.paths /\ r.groups = f.groups
<1> DEFINE c == Normalised(f)
<1>1. DOMAIN c = Fields /\ c.personas = f.personas /\ c.groups = f.groups
  BY NormalisedKeeps
<1>2. \A i \in DOMAIN f.personas : f.personas[i] \in PersonaEntries
  BY DEF Parsed
<1> HIDE DEF c
<1> QED BY <1>1, <1>2 DEF Load, resolveStaticClaims, Fields, PersonaEntries, c

LEMMA LatestOfOne ==
  ASSUME NEW i \in Nat \ {0}
  PROVE  Latest({i}) = i
BY DEF Latest

LEMMA LatestIsOne ==
  ASSUME NEW n \in Nat, NEW I \in SUBSET (1..n), NEW i \in I
  PROVE  Latest(I) \in I
<1>1. /\ Cardinality(I) \in Nat
      /\ \A k \in I : Rank(I, k) \in 1..Cardinality(I)
      /\ \A k, l \in I : k < l => Rank(I, k) < Rank(I, l)
      /\ \A k \in 1..Cardinality(I) : \E l \in I : Rank(I, l) = k
  BY Ranks
<1>2. PICK m \in I : Rank(I, m) = Cardinality(I)
  BY <1>1
<1>3. \A k \in I : k <= m
  <2> SUFFICES ASSUME NEW k \in I, m < k PROVE FALSE
    OBVIOUS
  <2> QED BY <1>1, <1>2
<1> QED BY <1>2, <1>3 DEF Latest

(* References are rewritten one to one: different references stand for     *)
(* different URLs.                                                         *)
LEMMA BaseIsText ==
  ASSUME NEW f, Parsed(f)
  PROVE  baseURL(Normalised(f)) \in Seq(STRING)
<1>1. ASSUME NEW u \in Seq(STRING) PROVE TrimSlash(u) \in Seq(STRING)
  <2>1. CASE Len(u) > 1 /\ Last(u) = ""
    <3>1. Len(u) - 1 \in Int /\ \A k \in 1..(Len(u) - 1) : u[k] \in STRING
      OBVIOUS
    <3>2. SubSeq(u, 1, Len(u) - 1) \in Seq(STRING)
      BY <3>1, SubSeqProperties
    <3> QED BY <2>1, <3>2 DEF TrimSlash, Front
  <2> QED BY <1>1, <2>1 DEF TrimSlash
<1>2. /\ Normalised(f).issuer = TrimSlash(f.issuer)
      /\ Normalised(f).browser = TrimSlash(f.browser)
  BY DEF Parsed, Normalised, Fields
<1>3. f.issuer \in Seq(STRING) /\ f.browser \in Seq(STRING)
  BY DEF Parsed
<1> QED BY <1>1, <1>2, <1>3 DEF baseURL

LEMMA RewritingIsInjective ==
  ASSUME NEW Text, Root \in Text, NEW c, baseURL(c) \in Seq(Text),
         NEW v \in Seq(Text), NEW w \in Seq(Text), IsRef(c, v), IsRef(c, w),
         rewriteValue(c, v) = rewriteValue(c, w)
  PROVE  v = w
<1> DEFINE s == baseURL(c) \o <<Root>>
<1>1. v # <<>> /\ w # <<>> /\ v[1] = w[1]
  BY DEF IsRef, Absent
<1>2. Tail(v) \in Seq(Text) /\ Tail(w) \in Seq(Text) /\ s \in Seq(Text)
  <2>1. <<Root>> \in Seq(Text)
    OBVIOUS
  <2> QED BY <1>1, <2>1, HeadTailProperties, ConcatProperties
<1>3. s \o Tail(v) = s \o Tail(w)
  BY DEF rewriteValue
<1>4. Tail(v) = Tail(w)
  <2> HIDE DEF s
  <2> QED BY <1>2, <1>3, ConcatSimplifications
<1>5. Len(v) = Len(w)
  <2>1. Len(v) \in Nat /\ Len(w) \in Nat
    OBVIOUS
  <2>2. Len(Tail(v)) = Len(v) - 1 /\ Len(Tail(w)) = Len(w) - 1
    BY <1>1, HeadTailProperties
  <2> HIDE DEF s
  <2>3. Len(v) - 1 = Len(w) - 1
    BY <1>4, <2>2
  <2> QED BY <2>1, <2>3
<1>6. ASSUME NEW n \in 1..Len(v) PROVE v[n] = w[n]
  <2>1. CASE n = 1
    BY <1>1, <2>1
  <2>2. CASE n > 1
    <3>1. n - 1 \in 1..Len(Tail(v)) /\ n - 1 \in 1..Len(Tail(w))
      BY <1>1, <1>5, <2>2, HeadTailProperties, LenProperties
    <3>2. Tail(v)[n - 1] = v[(n - 1) + 1] /\ Tail(w)[n - 1] = w[(n - 1) + 1]
      BY <1>1, <3>1, HeadTailProperties
    <3>3. (n - 1) + 1 = n
      OBVIOUS
    <3> QED BY <1>4, <3>2, <3>3
  <2> QED BY <2>1, <2>2, LenProperties
<1> QED BY <1>5, <1>6, SeqEqual

(* So two personas that load with one sub were not both configured as      *)
(* references, nor both not.                                               *)
LEMMA NamesAreKept ==
  ASSUME NEW f, Parsed(f), Loads(f), NEW i \in DOMAIN f.personas
  PROVE  LET r == Load(f)
             j == BySub(r, r.personas[i].sub)
             ByReference(k) == IsRef(Normalised(f), f.personas[k].sub)
         IN  /\ j # i => ByReference(i) # ByReference(j)
             /\ \A t \in Range(r.personas[i].tokens) : ByToken(r, t) = i
<1> DEFINE c == Normalised(f)
           r == Load(f)
           j == BySub(r, r.personas[i].sub)
           Named == {k \in DOMAIN r.personas : r.personas[k].sub = r.personas[i].sub}
<1>1. c.personas = f.personas
  BY NormalisedKeeps
<1>2. /\ DOMAIN r.personas = DOMAIN f.personas
      /\ \A k \in DOMAIN f.personas : r.personas[k].tokens = f.personas[k].tokens
      /\ \A k \in DOMAIN f.personas : r.personas[k].sub = rewriteValue(c, f.personas[k].sub)
  BY LoadKeeps
<1>3. PersonasValid(c)
  BY DEF Loads, Valid
<1>4. baseURL(c) \in Seq(STRING) /\ \A k \in DOMAIN f.personas : f.personas[k].sub \in Seq(STRING)
  <2>1. \A k \in DOMAIN f.personas : f.personas[k] \in PersonaEntries
    BY DEF Parsed
  <2> QED BY <2>1, BaseIsText DEF PersonaEntries
<1> HIDE DEF c, r
<1>5. \A k, l \in DOMAIN f.personas : k # l =>
         /\ f.personas[k].sub # f.personas[l].sub
         /\ Range(f.personas[k].tokens) \cap Range(f.personas[l].tokens) = {}
  BY <1>1, <1>3 DEF PersonasValid
<1>6. i \in Nat \ {0} /\ DOMAIN f.personas = 1..Len(f.personas) /\ Len(f.personas) \in Nat
  BY DEF Parsed
<1>7. j \in Named
  <2>1. i \in Named /\ Named \in SUBSET (1..Len(f.personas))
    BY <1>2, <1>6
  <2>2. Latest(Named) \in Named
    BY <1>6, <2>1, LatestIsOne
  <2> QED BY <2>2 DEF BySub
<1>8. ASSUME j # i PROVE IsRef(c, f.personas[i].sub) # IsRef(c, f.personas[j].sub)
  <2>1. j \in DOMAIN f.personas /\ f.personas[i].sub # f.personas[j].sub
    BY <1>2, <1>5, <1>7, <1>8
  <2>2. rewriteValue(c, f.personas[i].sub) = rewriteValue(c, f.personas[j].sub)
    BY <1>2, <1>7, <2>1
  <2>3. CASE IsRef(c, f.personas[i].sub) /\ IsRef(c, f.personas[j].sub)
    <3> DEFINE Text == STRING \cup {Root}
    <3>1. \A u \in Seq(STRING) : u \in Seq(Text)
      OBVIOUS
    <3>2. Root \in Text
      OBVIOUS
    <3> HIDE DEF Text
    <3> QED BY <1>4, <2>1, <2>2, <2>3, <3>1, <3>2, RewritingIsInjective
  <2>4. CASE ~IsRef(c, f.personas[i].sub) /\ ~IsRef(c, f.personas[j].sub)
    BY <2>1, <2>2, <2>4 DEF rewriteValue
  <2> QED BY <2>3, <2>4 DEF IsRef
<1>9. ASSUME NEW t \in Range(r.personas[i].tokens) PROVE ByToken(r, t) = i
  <2>1. {k \in DOMAIN r.personas : t \in Range(r.personas[k].tokens)} = {i}
    BY <1>2, <1>5
  <2> QED BY <1>6, <2>1, LatestOfOne DEF ByToken
<1> QED BY <1>8, <1>9 DEF r, c

ConfigInv ==
  /\ file \in Files
  /\ Loaded => Loads(file) /\ cfg = Load(file)

LEMMA ConfigInductive == ConfigInv /\ [Next]_vars => ConfigInv'
<1> SUFFICES ASSUME ConfigInv, [Next]_vars PROVE ConfigInv'
  OBVIOUS
<1>1. CASE LoadConfig
  BY <1>1 DEF LoadConfig, ConfigInv, Loaded
<1>2. CASE UNCHANGED <<file, cfg>>
  BY <1>2 DEF ConfigInv, Loaded
<1> QED BY <1>1, <1>2
     DEF Next, Main, vars, process, Build, SelectServeErr, SelectDone, Drained,
         DrainTimesOut, Exit, Signal, Listen, ListenerCloses, AcceptFails,
         Accept, FollowRedirect, WriteHeader, Write, Return

LEMMA ConfigInvariant == Spec => []ConfigInv
<1>1. Init => ConfigInv
  BY DEF Init, ConfigInv, Loaded
<1> QED BY <1>1, ConfigInductive, PTL DEF Spec

(* In every file that loads a token names the persona configured with it,  *)
(* and so does a sub, except where Load has rewritten a reference into the *)
(* URL that is another persona's sub.                                      *)
THEOREM NamesArePersonas == Spec => []NamedPersonaIsMeant
<1>1. ConfigInv => NamedPersonaIsMeant
  <2> DEFINE ByReference(k) == IsRef(Normalised(file), file.personas[k].sub)
  <2> SUFFICES ASSUME ConfigInv, Loaded, NEW i \in DOMAIN cfg.personas
               PROVE  /\ LET j == BySub(cfg, cfg.personas[i].sub)
                         IN  j # i => ByReference(i) # ByReference(j)
                      /\ \A t \in Range(cfg.personas[i].tokens) : ByToken(cfg, t) = i
    BY DEF NamedPersonaIsMeant
  <2>1. Parsed(file) /\ Loads(file) /\ cfg = Load(file)
    BY FilesAssumption DEF ConfigInv
  <2>2. i \in DOMAIN file.personas
    BY <2>1, LoadKeeps
  <2> QED BY <2>1, <2>2, NamesAreKept
<1> QED BY <1>1, ConfigInvariant, PTL

LEMMA CandidatesAreFinite ==
  ASSUME ConfigInv, Loaded, NEW h
  PROVE  IsFiniteSet(Candidates(cfg, h))
<1>1. Parsed(file) /\ cfg = Load(file)
  BY FilesAssumption DEF ConfigInv
<1>2. DOMAIN cfg.personas = 1..Len(file.personas) /\ Len(file.personas) \in Nat
  BY <1>1, LoadKeeps DEF Parsed
<1>3. IsFiniteSet(DOMAIN cfg.personas)
  <2>1. \A k \in Nat : IsFiniteSet(1..k)
    BY FS_Interval
  <2> QED BY <1>2, <2>1
<1> QED BY <1>3, FS_Subset DEF Candidates

(* Two spellings of a hint have the same candidates by email.  If there is *)
(* one, it is the only candidate of both; if not, each spelling means the  *)
(* persona whose sub it is.                                                *)
THEOREM HintsMeanOne == Spec => []HintsIgnoreCase
<1>1. ConfigInv => HintsIgnoreCase
  <2> SUFFICES ASSUME NEW h, NEW k, Folded(h) = Folded(k),
                      hintedSub(cfg, h) # Absent, hintedSub(cfg, k) # Absent,
                      ConfigInv, Loaded
               PROVE  \/ hintedSub(cfg, h) = hintedSub(cfg, k)
                      \/ hintedSub(cfg, h) = h /\ hintedSub(cfg, k) = k
    BY DEF HintsIgnoreCase
  <2> DEFINE ByEmail(x, i) == /\ cfg.personas[i].email # Absent
                              /\ Folded(cfg.personas[i].email) = Folded(x)
  <2>0. ASSUME NEW x, hintedSub(cfg, x) # Absent
        PROVE  \E i : Candidates(cfg, x) = {i} /\ hintedSub(cfg, x) = cfg.personas[i].sub
    <3>1. Cardinality(Candidates(cfg, x)) = 1
      BY <2>0 DEF hintedSub
    <3>2. PICK i : Candidates(cfg, x) = {i}
      BY <3>1, CandidatesAreFinite, FS_Singleton
    <3> QED BY <2>0, <3>1, <3>2 DEF hintedSub
  <2>1. PICK i : Candidates(cfg, h) = {i} /\ hintedSub(cfg, h) = cfg.personas[i].sub
    BY <2>0
  <2>2. PICK j : Candidates(cfg, k) = {j} /\ hintedSub(cfg, k) = cfg.personas[j].sub
    BY <2>0
  <2>3. CASE \E e \in DOMAIN cfg.personas : ByEmail(h, e)
    <3>1. PICK e \in DOMAIN cfg.personas : ByEmail(h, e)
      BY <2>3
    <3>2. e \in Candidates(cfg, h) /\ e \in Candidates(cfg, k)
      BY <3>1 DEF Candidates
    <3> QED BY <2>1, <2>2, <3>2
  <2>4. CASE ~\E e \in DOMAIN cfg.personas : ByEmail(h, e)
    <3>1. cfg.personas[i].sub = h
      BY <2>1, <2>4 DEF Candidates
    <3>2. cfg.personas[j].sub = k
      BY <2>2, <2>4 DEF Candidates
    <3> QED BY <2>1, <2>2, <3>1, <3>2
  <2> QED BY <2>3, <2>4
<1> QED BY <1>1, ConfigInvariant, PTL

-----------------------------------------------------------------------------
(* Types, of which those of a loaded configuration are the work of         *)
(* normalise and Validate.                                                 *)

LEMMA LoadedIsTyped ==
  ASSUME NEW f, Parsed(f), Loads(f)
  PROVE  /\ Load(f).lifetimes \in [Tokens -> Nat \ {0}]
         /\ \A m \in DOMAIN Load(f).paths : Len(m) = 1 /\ m[1] # Unset
<1> DEFINE c == Normalised(f)
<1>1. Valid(c)
  BY DEF Loads
<1>2. Load(f).lifetimes = c.lifetimes /\ Load(f).paths = c.paths
  BY LoadKeeps
<1>3. c.lifetimes = [t \in Tokens |-> IF f.lifetimes[t] = 0 THEN DefaultLifetime[t]
                                     ELSE f.lifetimes[t]]
  BY NormalisedKeeps
<1> HIDE DEF c
<1>4. c.lifetimes \in [Tokens -> Nat \ {0}]
  <2>1. \A t \in Tokens : c.lifetimes[t] >= 0
    BY <1>1 DEF Valid
  <2> QED BY <1>3, <2>1, LifetimeAssumption DEF Parsed
<1>5. \A m \in DOMAIN c.paths : Len(m) = 1 /\ m[1] # Unset
  BY <1>1 DEF Valid, StaticValid
<1> QED BY <1>2, <1>4, <1>5

ProcessTypes ==
  /\ main \in {"loading", "building", "selecting", "draining", "returned", "exited"}
  /\ result \in {"none", "ok", "error", "panic"}
  /\ signalled \in BOOLEAN /\ inShutdown \in BOOLEAN
  /\ listener \in {"off", "starting", "accepting", "ended"}
  /\ serveErr \in {"none", "closed", "failed"}

LEMMA ProcessTypesInductive == ProcessTypes /\ [Next]_vars => ProcessTypes'
<1> SUFFICES ASSUME ProcessTypes, [Next]_vars PROVE ProcessTypes'
  OBVIOUS
<1> USE DEF ProcessTypes, process
<1>1. CASE LoadConfig \/ Build \/ Exit
  BY <1>1 DEF LoadConfig, Build, Exit
<1>2. CASE SelectServeErr \/ SelectDone \/ Drained \/ DrainTimesOut
  BY <1>2 DEF SelectServeErr, SelectDone, Drained, DrainTimesOut
<1>3. CASE Signal
  BY <1>3 DEF Signal
<1>4. CASE Listen \/ ListenerCloses \/ AcceptFails
  BY <1>4 DEF Listen, ListenerCloses, AcceptFails
<1>5. CASE UNCHANGED <<process, listener, serveErr>>
  BY <1>5
<1> QED BY <1>1, <1>2, <1>3, <1>4, <1>5
     DEF Next, Main, vars, Accept, FollowRedirect, WriteHeader, Write, Return

(* Every state has its type: a loaded configuration has positive lifetimes *)
(* and mounts that are one named segment.                                  *)
THEOREM TypeCorrect == Spec => []TypeOK
<1>1. Init => ProcessTypes /\ ResponsesInv
  BY DEF Init, ProcessTypes, ResponsesInv
<1>2. ConfigInv /\ ProcessTypes /\ ResponsesInv => TypeOK
  <2> SUFFICES ASSUME ConfigInv, ProcessTypes, ResponsesInv PROVE TypeOK
    OBVIOUS
  <2>1. Loaded => /\ cfg.lifetimes \in [Tokens -> Nat \ {0}]
                  /\ \A m \in DOMAIN cfg.paths : Len(m) = 1 /\ m[1] # Unset
    BY LoadedIsTyped, FilesAssumption DEF ConfigInv
  <2> QED BY <2>1 DEF TypeOK, ConfigInv, ProcessTypes, ResponsesInv, GoodResponse
<1> QED BY <1>1, <1>2, ConfigInvariant, ProcessTypesInductive, ResponsesInductive, PTL DEF Spec

-----------------------------------------------------------------------------
(* The picker's page.                                                      *)

(* Every persona of a loaded configuration has its card.                   *)
THEOREM EveryPersonaHasACard == Spec => []EveryPersonaIsShown
<1>1. ConfigInv => EveryPersonaIsShown
  <2> SUFFICES ASSUME ConfigInv, Loaded
               PROVE  EveryPersonaIsShown
    BY DEF EveryPersonaIsShown
  <2>1. Parsed(file) /\ Loads(file) /\ cfg = Load(file)
    BY FilesAssumption DEF ConfigInv
  <2>2. DOMAIN cfg.personas = DOMAIN file.personas /\ cfg.groups = file.groups
    BY <2>1, LoadKeeps
  <2>3. /\ Len(file.personas) \in Nat /\ DOMAIN file.personas = 1..Len(file.personas)
        /\ Len(file.groups) \in Nat /\ DOMAIN file.groups = 1..Len(file.groups)
    BY <2>1 DEF Parsed
  <2>4. Grouped(cfg)
    BY <2>2, <2>3 DEF Grouped
  <2> QED BY <2>4, PageShowsPersonas DEF EveryPersonaIsShown
<1> QED BY <1>1, ConfigInvariant, PTL

-----------------------------------------------------------------------------
(* The references.  A path that a reference stands for is a file's, or     *)
(* cleaned of needless segments and the file's then.                       *)

LEMMA ReferencesHaveFiles ==
  ASSUME NEW c, NEW v \in Seq(STRING), Resolves(c, v), Servable(Tail(v))
  PROVE  LET p == Tail(v) IN
         /\ p \in Seq(STRING) /\ Len(p) > 1 /\ Tail(p) \in Seq(STRING)
         /\ 1 \in Kept(p) /\ <<p[1]>> \in DOMAIN c.paths
         /\ IsFile(c.paths[<<p[1]>>], Tail(p))
<1> DEFINE p == Tail(v)
           n == Len(v)
<1>1. n > 2 /\ n \in Nat
  <2>1. Len(v) > 2
    BY Zenon DEF Resolves
  <2> QED BY <2>1
<1>2. v # <<>>
  BY <1>1
<1>3. p \in Seq(STRING) /\ Len(p) = n - 1
  BY <1>2, HeadTailProperties
<1>4. p[1] = v[2]
  <2>1. \A i \in 1..Len(p) : p[i] = v[i + 1]
    BY <1>2, HeadTailProperties
  <2>2. 1 \in 1..Len(p) /\ 1 + 1 = 2
    BY <1>1, <1>3
  <2> QED BY <2>1, <2>2
<1>5. Tail(p) = SubSeq(v, 3, n)
  <2>1. 2 \in 1..n /\ n \in 2..n
    BY <1>1
  <2>2. Tail(SubSeq(v, 2, n)) = SubSeq(v, 2 + 1, n)
    BY <2>1, HeadTailOfSubSeq
  <2>3. p = SubSeq(v, 2, n)
    BY <1>2, TailIsSubSeq
  <2> QED BY <2>2, <2>3
<1>6. v[2] # ""
  BY DEF Resolves
<1>7. Len(p) > 1 /\ p # <<>> /\ Head(p) = p[1]
  <2> HIDE DEF p
  <2>1. Len(p) > 1
    BY <1>1, <1>3
  <2> QED BY <1>3, <2>1
<1>8. Tail(p) \in Seq(STRING)
  BY <1>3, <1>7, HeadTailProperties
<1>9. Head(p) # "."
  BY DEF Servable
<1>10. Counts(p[1])
  <2>1. p[1] # "" /\ p[1] # "."
    BY <1>4, <1>6, <1>7, <1>9, Zenon
  <2> QED BY <2>1, Zenon DEF Counts
<1>11. 1 \in Kept(p)
  BY <1>3, <1>7, <1>10 DEF Kept
<1>12. <<v[2]>> \in DOMAIN c.paths /\ IsFile(c.paths[<<v[2]>>], SubSeq(v, 3, n))
  BY DEF Resolves
<1> QED BY <1>3, <1>4, <1>5, <1>7, <1>8, <1>11, <1>12

LEMMA PlainPathsEnd ==
  ASSUME NEW p \in Seq(STRING), Plain(p), Len(p) > 0
  PROVE  Last(p) # ""
<1>1. Counts(p[Len(p)])
  BY DEF Plain
<1>2. Last(p) = p[Len(p)]
  BY DEF Last
<1> QED BY <1>1, <1>2, Zenon DEF Counts

LEMMA MuxCleans ==
  ASSUME NEW p \in Seq(STRING), Last(p) # ""
  PROVE  MuxClean(p) = Clean(p)
<1>1. MuxClean(p) = Clean(p) \o <<>>
  BY Zenon DEF MuxClean
<1>2. Clean(p) \in Seq(STRING)
  BY CleanIsPlain
<1> QED BY <1>1, <1>2, ConcatEmptySeq

LEMMA CleanPathsAreFiles ==
  ASSUME NEW c, NEW p \in Seq(STRING), Plain(p), Len(p) > 1, Tail(p) # <<>>,
         Last(p) # "index.html", <<p[1]>> \in DOMAIN c.paths,
         IsFile(c.paths[<<p[1]>>], Tail(p))
  PROVE  Route(c, p) = "file"
<1>1. Last(p) # ""
  <2>1. Len(p) > 0
    OBVIOUS
  <2> QED BY <2>1, PlainPathsEnd
<1>2. MuxClean(p) = p
  BY <1>1, MuxCleans, CleanIsIdempotent
<1> QED BY <1>1, <1>2, Zenon DEF Route

LEMMA ReferencesAreRouted ==
  ASSUME NEW c, NEW r, r.paths = c.paths, NEW v \in Seq(STRING), Resolves(c, v),
         Servable(Tail(v)), NEW path \in {Tail(v), Clean(Tail(v))}
  PROVE  \/ Route(r, path) = "file"
         \/ Route(r, path) = "unclean" /\ MuxClean(path) = Clean(Tail(v))
<1> DEFINE p == Tail(v)
           u == Clean(p)
           dir == c.paths[<<p[1]>>]
<1>1. /\ p \in Seq(STRING) /\ Len(p) > 1 /\ Tail(p) \in Seq(STRING)
      /\ 1 \in Kept(p) /\ <<p[1]>> \in DOMAIN c.paths /\ IsFile(dir, Tail(p))
  BY ReferencesHaveFiles
<1>2. u = <<p[1]>> \o Clean(Tail(p))
  <2>1. Head(p) = p[1]
    BY <1>1
  <2> QED BY <1>1, <2>1, CleanKeepsHead
<1>3. Clean(Tail(p)) \in Seq(STRING) /\ Plain(Clean(Tail(p)))
  BY <1>1, CleanIsPlain
<1>4. Clean(Tail(p)) # <<>>
  BY <1>1, DiskAssumption DEF IsFile
<1>5. u \in Seq(STRING) /\ Plain(u)
  BY <1>1, CleanIsPlain
<1>6. p[1] \in STRING
  BY <1>1
<1>7. u[1] = p[1] /\ Tail(u) = Clean(Tail(p)) /\ Len(u) > 1
  <2> DEFINE t == Clean(Tail(p))
  <2>1. t \in Seq(STRING) /\ Len(t) > 0
    BY <1>3, <1>4, EmptySeq
  <2>2. u = <<p[1]>> \o t
    BY <1>2
  <2> HIDE DEF t, u, p
  <2>3. <<p[1]>> \in Seq(STRING) /\ Len(<<p[1]>>) = 1 /\ <<p[1]>>[1] = p[1]
    BY <1>6
  <2>4. /\ u \in Seq(STRING) /\ Len(u) = 1 + Len(t)
        /\ \A i \in 1..(1 + Len(t)) : u[i] = IF i <= 1 THEN <<p[1]>>[i] ELSE t[i - 1]
    BY <2>1, <2>2, <2>3, ConcatProperties
  <2>5. u[1] = p[1] /\ Len(u) > 1 /\ u # <<>>
    BY <2>1, <2>3, <2>4
  <2>6. /\ Tail(u) \in Seq(STRING) /\ Len(Tail(u)) = Len(u) - 1
        /\ \A i \in 1..Len(Tail(u)) : Tail(u)[i] = u[i + 1]
    BY <2>4, <2>5, HeadTailProperties
  <2>7. Len(Tail(u)) = Len(t) /\ \A i \in 1..Len(t) : Tail(u)[i] = t[i]
    BY <2>1, <2>4, <2>6
  <2>8. Tail(u) = t
    BY <2>1, <2>6, <2>7, SeqEqual
  <2> QED BY <2>5, <2>8 DEF t
<1>8. Last(p) # "" /\ Last(u) # "index.html"
  BY DEF Servable
<1>9. IsFile(dir, Tail(u))
  <2>1. Clean(Clean(Tail(p))) = Clean(Tail(p))
    BY <1>3, CleanIsIdempotent
  <2> QED BY <1>1, <1>7, <2>1 DEF IsFile
<1>10. Route(r, u) = "file"
  BY <1>1, <1>4, <1>5, <1>7, <1>8, <1>9, CleanPathsAreFiles
<1>11. MuxClean(p) = u
  BY <1>1, <1>8, MuxCleans
<1>12. CASE path = u
  BY <1>10, <1>12
<1>13. CASE path = p /\ p # u
  <2>1. Route(r, p) = "unclean"
    BY <1>11, <1>13 DEF Route
  <2> QED BY <1>11, <1>13, <2>1
<1> QED BY <1>12, <1>13

LEMMA ReferencesAreText ==
  ASSUME NEW f, Parsed(f), NEW v \in References(Normalised(f))
  PROVE  v \in Seq(STRING)
<1>1. Normalised(f).personas = f.personas
  BY NormalisedKeeps
<1>2. PICK i \in DOMAIN f.personas :
        v \in {f.personas[i].sub, f.personas[i].email, f.personas[i].picture}
  BY <1>1 DEF References, ClaimValues
<1>3. f.personas[i] \in PersonaEntries
  BY DEF Parsed
<1> QED BY <1>2, <1>3 DEF PersonaEntries

(* The requests that began with a reference: each is for the path itself or *)
(* the clean one, gets the file or is redirected from the one to the other. *)
ClaimedIn(f) == {Tail(v) : v \in References(Normalised(f))}
Followed(f, q) ==
  /\ q.kind # "asset" => q.header.status \notin {301, 404}
  /\ q.kind = "asset" /\ q.origin \in ClaimedIn(f) /\ Servable(q.origin) =>
       /\ q.path \in {q.origin, Clean(q.origin)}
       /\ q.header.status # 404
       /\ q.header.status = 301 => MuxClean(q.path) = Clean(q.origin)
                                   /\ Route(Load(f), q.path) = "unclean"

Serving ==
  main \in {"building", "selecting", "draining"} \/ listener # "off" =>
    Loads(file) /\ cfg = Load(file)

FollowedInv ==
  /\ ConfigInv
  /\ ResponsesInv
  /\ Serving
  /\ \A n \in Requests : reqs[n] # Idle => Followed(file, reqs[n])

LEMMA AnswersLeadOn ==
  ASSUME Parsed(file), Loads(file), cfg = Load(file),
         NEW q, q.kind \in {"asset", "page", "up"},
         q.kind = "asset" /\ q.origin \in ClaimedIn(file) /\ Servable(q.origin) =>
           q.path \in {q.origin, Clean(q.origin)},
         NEW reply \in Answers(q)
  PROVE  Followed(file, Begun(q, reply))
<1> DEFINE b == Begun(q, reply)
<1>1. b.kind = q.kind /\ b.origin = q.origin /\ b.path = q.path /\ b.header = reply
  BY DEF Begun
<1> HIDE DEF b
<1>2. CASE q.kind # "asset"
  <2>1. reply.status \in {200, 500}
    BY <1>2 DEF Answers, Rendered, Reply
  <2> QED BY <1>1, <1>2, <2>1 DEF Followed, b
<1>3. CASE q.kind = "asset" /\ ~(q.origin \in ClaimedIn(file) /\ Servable(q.origin))
  BY <1>1, <1>3 DEF Followed, b
<1>4. CASE q.kind = "asset" /\ q.origin \in ClaimedIn(file) /\ Servable(q.origin)
  <2> DEFINE c == Normalised(file)
  <2>1. PICK v \in References(c) : q.origin = Tail(v)
    BY <1>4 DEF ClaimedIn
  <2>2. v \in Seq(STRING)
    BY <2>1, ReferencesAreText
  <2>3. Resolves(c, v)
    BY <2>1 DEF Loads
  <2>4. cfg.paths = c.paths
    BY LoadKeeps
  <2> HIDE DEF c
  <2>5. q.path \in {Tail(v), Clean(Tail(v))} /\ Servable(Tail(v))
    BY <1>4, <2>1
  <2>6. \/ Route(cfg, q.path) = "file"
        \/ Route(cfg, q.path) = "unclean" /\ MuxClean(q.path) = Clean(q.origin)
    BY <2>1, <2>2, <2>3, <2>4, <2>5, ReferencesAreRouted
  <2>7. reply = AssetReply(q)
    BY <1>4 DEF Answers
  <2>8. CASE Route(cfg, q.path) = "file"
    <3> DEFINE ctype == Disk[cfg.paths[<<q.path[1]>>]][Clean(Tail(q.path))]
    <3>1. reply = FileReply(ctype, q)
      BY <2>7, <2>8 DEF AssetReply
    <3> HIDE DEF ctype
    <3>2. reply.status \in {200, 206, 304}
      BY <3>1 DEF FileReply, Reply
    <3> QED BY <1>1, <1>4, <3>2 DEF Followed, b
  <2>9. CASE Route(cfg, q.path) = "unclean" /\ MuxClean(q.path) = Clean(q.origin)
    <3>1. reply.status = 301
      BY <2>7, <2>9 DEF AssetReply, Reply
    <3> QED BY <1>1, <1>4, <2>9, <3>1 DEF Followed, b
  <2> QED BY <2>6, <2>8, <2>9
<1> QED BY <1>2, <1>3, <1>4

LEMMA FollowedKept ==
  ASSUME NEW f, NEW q, NEW r, Followed(f, q),
         r.kind = q.kind, r.origin = q.origin, r.path = q.path,
         r.header.status = q.header.status
  PROVE  Followed(f, r)
BY DEF Followed

LEMMA SendingKeepsAim ==
  ASSUME NEW q, IsResponse(q), NEW r \in {HeaderSent(q), Written(q), Returned(q), [q EXCEPT !.at = "cut"]}
  PROVE  /\ r.kind = q.kind /\ r.origin = q.origin /\ r.path = q.path
         /\ r.header.status = q.header.status
<1>1. /\ DOMAIN q = {"at", "kind", "origin", "path", "wants", "vary", "header",
                     "encoding", "plain", "zipped", "trailer"}
      /\ DOMAIN q.header = {"status", "ctype", "cache", "length", "chunks"}
  BY DEF IsResponse
<1>2. CASE r = HeaderSent(q)
  <2>1. DOMAIN Uncached(q.header) = DOMAIN q.header /\ Uncached(q.header).status = q.header.status
    BY <1>1 DEF Uncached
  <2>2. r.header = [Uncached(q.header) EXCEPT !.length = IF Compresses(q) THEN NoLength ELSE @]
    BY <1>1, <1>2 DEF HeaderSent
  <2>3. r.kind = q.kind /\ r.origin = q.origin /\ r.path = q.path
    BY <1>1, <1>2 DEF HeaderSent
  <2>4. r.header.status = q.header.status
    BY <1>1, <2>1, <2>2
  <2> QED BY <2>3, <2>4
<1>3. CASE r = Written(q)
  BY <1>1, <1>3 DEF Written
<1>4. CASE r \in {Returned(q), [q EXCEPT !.at = "cut"]}
  BY <1>1, <1>4 DEF Returned
<1> QED BY <1>2, <1>3, <1>4

LEMMA FollowedInductive == FollowedInv /\ [Next]_vars => FollowedInv'
<1> SUFFICES ASSUME FollowedInv, [Next]_vars PROVE FollowedInv'
  OBVIOUS
<1>1. ConfigInv' /\ ResponsesInv /\ ResponsesInv'
  BY ConfigInductive, ResponsesInductive DEF FollowedInv
<1>2. DOMAIN reqs = Requests /\ Parsed(file)
  BY <1>1, FilesAssumption DEF ResponsesInv, FollowedInv, ConfigInv
<1>3. file' = file
  BY DEF Next, Main, vars, process, LoadConfig, Build, SelectServeErr, SelectDone, Drained,
         DrainTimesOut, Exit, Signal, Listen, ListenerCloses, AcceptFails,
         Accept, FollowRedirect, WriteHeader, Write, Return
<1>4. Serving'
  <2>1. CASE LoadConfig
    <3>1. CASE Loads(file)
      BY <2>1, <3>1, <1>3 DEF LoadConfig, Serving
    <3>2. CASE ~Loads(file)
      BY <2>1, <3>2, <1>3 DEF LoadConfig, Serving, FollowedInv
    <3> QED BY <3>1, <3>2
  <2>2. ASSUME UNCHANGED cfg,
               \/ main' = main \/ main' \in {"returned", "exited"}
               \/ main \in {"building", "selecting", "draining"},
               listener' = "off" \/ listener # "off" \/ main \in {"building", "selecting", "draining"}
        PROVE  Serving'
    BY <1>3, <2>2 DEF Serving, FollowedInv
  <2>3. CASE Build \/ SelectServeErr \/ SelectDone \/ Drained \/ DrainTimesOut \/ Exit
    BY <2>2, <2>3 DEF Build, SelectServeErr, SelectDone, Drained, DrainTimesOut, Exit
  <2>4. CASE Signal \/ Listen \/ ListenerCloses \/ AcceptFails \/ UNCHANGED vars
    BY <2>2, <2>4 DEF Signal, Listen, ListenerCloses, AcceptFails, process, vars
  <2>5. CASE UNCHANGED <<process, listener, serveErr>>
    BY <2>2, <2>5 DEF process
  <2> QED BY <2>1, <2>3, <2>4, <2>5
       DEF Next, Main, Accept, FollowRedirect, WriteHeader, Write, Return
<1>5. ASSUME NEW n \in Requests, NEW r, reqs' = [reqs EXCEPT ![n] = r], Followed(file, r)
      PROVE  FollowedInv'
  <2>1. \A m \in Requests : reqs'[m] # Idle => Followed(file, reqs'[m])
    BY <1>2, <1>5 DEF FollowedInv
  <2> QED BY <1>1, <1>3, <1>4, <2>1 DEF FollowedInv
<1>6. CASE UNCHANGED reqs
  BY <1>1, <1>3, <1>4, <1>6 DEF FollowedInv
<1>7. CASE Exit
  <2>1. ASSUME NEW m \in Requests, reqs'[m] # Idle PROVE Followed(file, reqs'[m])
    <3>1. CASE m \notin InFlight
      BY <1>7, <2>1, <3>1 DEF Exit, FollowedInv
    <3>2. CASE m \in InFlight
      <4>1. reqs'[m] = [reqs[m] EXCEPT !.at = "cut"] /\ reqs[m] # Idle
        BY <1>7, <3>2 DEF Exit, InFlight, Idle
      <4>2. IsResponse(reqs[m]) /\ Followed(file, reqs[m])
        BY <1>1, <4>1 DEF ResponsesInv, GoodResponse, FollowedInv
      <4>3. PICK r : r = [reqs[m] EXCEPT !.at = "cut"]
        OBVIOUS
      <4>4. /\ r.kind = reqs[m].kind /\ r.origin = reqs[m].origin /\ r.path = reqs[m].path
            /\ r.header.status = reqs[m].header.status
        BY <4>2, <4>3, SendingKeepsAim
      <4>5. Followed(file, r)
        BY <4>2, <4>4, FollowedKept
      <4> QED BY <4>1, <4>3, <4>5
    <3> QED BY <3>1, <3>2
  <2> QED BY <1>1, <1>3, <1>4, <2>1 DEF FollowedInv
<1>8. ASSUME NEW n \in Requests, NEW q \in Asked, Accept(n, q) PROVE FollowedInv'
  <2>1. PICK reply \in Answers(q) : reqs' = [reqs EXCEPT ![n] = Begun(q, reply)]
    BY <1>8 DEF Accept
  <2>2. Loads(file) /\ cfg = Load(file)
    BY <1>8 DEF Accept, FollowedInv, Serving
  <2>3. q.kind \in {"asset", "page", "up"} /\ (q.kind = "asset" => q.path = q.origin)
    BY DEF Asked
  <2>4. Followed(file, Begun(q, reply))
    BY <1>2, <2>2, <2>3, AnswersLeadOn
  <2> QED BY <1>5, <2>1, <2>4
<1>9. ASSUME NEW n \in Requests, FollowRedirect(n) PROVE FollowedInv'
  <2>1. reqs[n].at = "done" /\ reqs[n].header.status = 301 /\ listener = "accepting"
    BY <1>9 DEF FollowRedirect
  <2>2. reqs[n] # Idle
    BY <2>1 DEF Idle
  <2>3. IsResponse(reqs[n]) /\ Followed(file, reqs[n])
    BY <1>1, <2>2 DEF ResponsesInv, GoodResponse, FollowedInv
  <2>4. Loads(file) /\ cfg = Load(file)
    BY <2>1 DEF FollowedInv, Serving
  <2> DEFINE q == [reqs[n] EXCEPT !.path = RedirectedTo(cfg, @)]
  <2>5. PICK reply \in Answers(q) : reqs' = [reqs EXCEPT ![n] = Begun(q, reply)]
    BY <1>9 DEF FollowRedirect
  <2>6. /\ q.kind = reqs[n].kind /\ q.origin = reqs[n].origin
        /\ q.path = RedirectedTo(cfg, reqs[n].path)
    BY <2>3 DEF IsResponse
  <2> HIDE DEF q
  <2>7. reqs[n].kind = "asset"
    BY <2>1, <2>3 DEF Followed
  <2>8. ASSUME q.origin \in ClaimedIn(file), Servable(q.origin)
        PROVE  q.path \in {q.origin, Clean(q.origin)}
    <3>1. MuxClean(reqs[n].path) = Clean(q.origin) /\ Route(cfg, reqs[n].path) = "unclean"
      BY <2>1, <2>3, <2>4, <2>6, <2>7, <2>8 DEF Followed
    <3>2. q.path = MuxClean(reqs[n].path)
      BY <2>6, <3>1 DEF RedirectedTo
    <3> QED BY <3>1, <3>2
  <2>9. Followed(file, Begun(q, reply))
    BY <1>2, <2>4, <2>6, <2>7, <2>8, AnswersLeadOn
  <2> QED BY <1>5, <2>5, <2>9
<1>10. ASSUME NEW n \in Requests, WriteHeader(n) \/ Write(n) \/ Return(n) PROVE FollowedInv'
  <2>1. PICK r \in {HeaderSent(reqs[n]), Written(reqs[n]), Returned(reqs[n])} :
          reqs' = [reqs EXCEPT ![n] = r]
    BY <1>10 DEF WriteHeader, Write, Return
  <2>2. reqs[n] # Idle
    BY <1>10 DEF WriteHeader, Write, Return, Idle
  <2>3. IsResponse(reqs[n]) /\ Followed(file, reqs[n])
    BY <1>1, <2>2 DEF ResponsesInv, GoodResponse, FollowedInv
  <2>4. Followed(file, r)
    BY <2>1, <2>3, SendingKeepsAim, FollowedKept
  <2> QED BY <1>5, <2>1, <2>4
<1> QED BY <1>6, <1>7, <1>8, <1>9, <1>10
     DEF Next, Main, vars, LoadConfig, Build, SelectServeErr, SelectDone, Drained,
         DrainTimesOut, Signal, Listen, ListenerCloses, AcceptFails

(* Whoever follows a reference of a configuration that loads gets its file. *)
THEOREM ReferencesLeadToFiles == Spec => []ReferencesAreServed
<1>1. Init => FollowedInv
  BY DEF Init, FollowedInv, ConfigInv, ResponsesInv, Serving, Loaded
<1>2. FollowedInv => ReferencesAreServed
  <2> SUFFICES ASSUME FollowedInv, NEW n \in Requests, reqs[n].at = "done",
                      reqs[n].header.status = 404, reqs[n].origin \in Claimed,
                      Servable(reqs[n].origin)
               PROVE  FALSE
    BY DEF ReferencesAreServed
  <2>1. Followed(file, reqs[n])
    BY DEF FollowedInv, Idle
  <2> QED BY <2>1 DEF Followed, Claimed, ClaimedIn
<1> QED BY <1>1, <1>2, FollowedInductive, PTL DEF Spec
==============================================================================
