-------------------------------- MODULE Serve --------------------------------
(***************************************************************************)
(* `hamnir serve` (internal/command/serve.go): the process from the        *)
(* configuration it loads to its exit, with the HTTP responses in between, *)
(* as the static file server and the pages give them through the gzip      *)
(* writer of internal/server/gzip.go.                                      *)
(*                                                                         *)
(* The main goroutine, the goroutine of ListenAndServe, the signal and the *)
(* handlers, one goroutine per request, interleave.  A response is         *)
(* sent in the calls its handler makes on its ResponseWriter.              *)
(***************************************************************************)
EXTENDS Configuration

CONSTANTS
  Files,           \* the configuration files
  Strays,          \* paths below Root that browsers ask for of their own accord
  Unpatternable,   \* the segments net/http's pattern parser rejects
  Compressible,    \* the content types in compressibleTypes
  MaxRequests      \* bound: requests, numbered as they arrive

ASSUME RequestsAssumption == MaxRequests \in Nat
ASSUME FilesAssumption    == \A f \in Files : Parsed(f)

Requests == 1..MaxRequests

VARIABLES
  file,         \* the configuration file
  cfg,          \* the loaded configuration
  main,         \* where the main goroutine is
  result,       \* how the process ends: "ok" and "error" are exit codes 0 and 1
  signalled,    \* ctx.Done(): an interrupt or SIGTERM has arrived
  inShutdown,   \* srv.Shutdown has been called
  listener,     \* the goroutine of ListenAndServe
  serveErr,     \* what the channel holds; "closed" is ErrServerClosed, sent as nil
  reqs          \* the requests and their responses

process == <<file, cfg, main, result, signalled, inShutdown>>
vars    == <<process, listener, serveErr, reqs>>

Unloaded == [loaded |-> FALSE]
Loaded   == cfg # Unloaded
NoLength == -1

Idle == [at |-> "idle"]
(* How a file is asked for: without gzip (or by HEAD), with it, a part of  *)
(* it, or only if it has changed since.                                    *)
Wants == {"plain", "gzip", "range", "changes"}

(* A response, which keeps what was asked and how it has been answered.    *)
IsResponse(q) ==
  /\ DOMAIN q = {"at", "kind", "origin", "path", "wants", "vary", "header",
                 "encoding", "plain", "zipped", "trailer"}
  /\ DOMAIN q.header = {"status", "ctype", "cache", "length", "chunks"}
  /\ q.at \in {"begun", "sending", "done", "cut"}
  /\ q.kind \in {"asset", "page", "up"} /\ q.wants \in Wants
  /\ q.header.status \in {200, 206, 301, 304, 404, 500}
  /\ q.header.length \in Nat \cup {NoLength} /\ q.header.chunks \in Nat
  /\ q.encoding \in {"none", "gzip"} /\ q.plain \in Nat /\ q.zipped \in Nat
  /\ q.vary \in {"none", "Accept-Encoding"} /\ q.header.cache \in {"none", "max-age"}
  /\ q.trailer \in {"none", "gzip"}

TypeOK ==
  /\ file \in Files
  /\ Loaded => /\ cfg.lifetimes \in [Tokens -> Nat \ {0}]
               /\ \A m \in DOMAIN cfg.paths : Len(m) = 1 /\ m[1] # Unset
  /\ main \in {"loading", "building", "selecting", "draining", "returned", "exited"}
  /\ result \in {"none", "ok", "error", "panic"}
  /\ signalled \in BOOLEAN /\ inShutdown \in BOOLEAN
  /\ listener \in {"off", "starting", "accepting", "ended"}
  /\ serveErr \in {"none", "closed", "failed"}
  /\ DOMAIN reqs = Requests
  /\ \A n \in Requests : reqs[n] = Idle \/ IsResponse(reqs[n])

Init ==
  /\ file \in Files
  /\ cfg = Unloaded
  /\ main = "loading" /\ result = "none"
  /\ signalled = FALSE /\ inShutdown = FALSE
  /\ listener = "off" /\ serveErr = "none"
  /\ reqs = [n \in Requests |-> Idle]

(* The paths that references in the file's claims stand for. *)
Claimed == {Tail(v) : v \in References(Normalised(file))}
InFlight == {n \in Requests : reqs[n].at \in {"begun", "sending"}}

-----------------------------------------------------------------------------
(* The process.                                                            *)

LoadConfig ==
  /\ main = "loading"
  /\ IF Loads(file)
       THEN cfg' = Load(file) /\ main' = "building" /\ UNCHANGED result
       ELSE main' = "returned" /\ result' = "error" /\ UNCHANGED cfg
  /\ UNCHANGED <<file, signalled, inShutdown, listener, serveErr, reqs>>

(* server.New: op.NewProvider is stricter with an issuer than Load is; a    *)
(* pattern is registered per mount, and one that does not parse panics.    *)
(* Then ListenAndServe is started.                                         *)
Build ==
  /\ main = "building"
  /\ \/ cfg.issuer # Absent /\ main' = "returned" /\ result' = "error" /\ UNCHANGED listener
     \/ IF \E m \in DOMAIN cfg.paths : m[1] \in Unpatternable
          THEN main' = "exited" /\ result' = "panic" /\ UNCHANGED listener
          ELSE main' = "selecting" /\ listener' = "starting" /\ UNCHANGED result
  /\ UNCHANGED <<file, cfg, signalled, inShutdown, serveErr, reqs>>

Signal ==
  /\ main # "exited" /\ ~signalled
  /\ signalled' = TRUE
  /\ UNCHANGED <<file, cfg, main, result, inShutdown, listener, serveErr, reqs>>

(* net.Listen and the registration of the listener, which fails once       *)
(* Shutdown has been called.  The port may be taken, whenever that is      *)
(* found out.                                                              *)
Listen ==
  /\ main # "exited" /\ listener = "starting"
  /\ \/ inShutdown /\ listener' = "ended" /\ serveErr' = "closed"
     \/ ~inShutdown /\ listener' = "accepting" /\ UNCHANGED serveErr
     \/ listener' = "ended" /\ serveErr' = "failed"
  /\ UNCHANGED <<process, reqs>>

(* Shutdown has closed the listener. *)
ListenerCloses ==
  /\ main # "exited" /\ listener = "accepting" /\ inShutdown
  /\ listener' = "ended" /\ serveErr' = "closed"
  /\ UNCHANGED <<process, reqs>>

AcceptFails ==
  /\ main # "exited" /\ listener = "accepting" /\ ~inShutdown
  /\ listener' = "ended" /\ serveErr' = "failed"
  /\ UNCHANGED <<process, reqs>>

SelectServeErr ==
  /\ main = "selecting" /\ serveErr # "none"
  /\ main' = "returned"
  /\ result' = IF serveErr = "closed" THEN "ok" ELSE "error"
  /\ UNCHANGED <<file, cfg, signalled, inShutdown, listener, serveErr, reqs>>

(* Shutdown runs in a goroutine of its own while Serve waits for           *)
(* ListenAndServe to return.                                               *)
FaultySelectDone ==
  /\ main = "selecting" /\ signalled /\ ~inShutdown
  /\ inShutdown' = TRUE
  /\ UNCHANGED <<file, cfg, main, result, signalled, listener, serveErr, reqs>>

SelectDone ==
  /\ main = "selecting" /\ signalled
  /\ main' = "draining" /\ inShutdown' = TRUE
  /\ UNCHANGED <<file, cfg, result, signalled, listener, serveErr, reqs>>

(* Shutdown waits for the listener's goroutine and the active connections. *)
Drained ==
  /\ main = "draining" /\ listener # "accepting" /\ InFlight = {}
  /\ main' = "returned" /\ result' = "ok"
  /\ UNCHANGED <<file, cfg, signalled, inShutdown, listener, serveErr, reqs>>

(* Shutdown waits as long as its caller does. *)
FaultyDrainTimesOut == FALSE

DrainTimesOut ==
  /\ main = "draining" /\ listener # "accepting" /\ InFlight # {}
  /\ main' = "returned" /\ result' = "error"
  /\ UNCHANGED <<file, cfg, signalled, inShutdown, listener, serveErr, reqs>>

(* The end of the process is the end of its requests. *)
Exit ==
  /\ main = "returned"
  /\ main' = "exited"
  /\ reqs' = [n \in Requests |->
                IF n \in InFlight THEN [reqs[n] EXCEPT !.at = "cut"] ELSE reqs[n]]
  /\ UNCHANGED <<file, cfg, result, signalled, inShutdown, listener, serveErr>>

-----------------------------------------------------------------------------
(* The responses the handlers give: status, Content-Type, Cache-Control,   *)
(* Content-Length, and the number of writes of the body.                   *)

Reply(status, ctype, cache, length, chunks) ==
  [status |-> status, ctype |-> ctype, cache |-> cache,
   length |-> length, chunks |-> chunks]

(* Files are as long as the number of writes that copy them: 2.            *)
FileReply(ctype, q) ==
  IF q.wants = "changes" THEN Reply(304, "none", "max-age", NoLength, 0)
  ELSE IF q.wants = "range" THEN Reply(206, ctype, "max-age", 1, 1)
  ELSE Reply(200, ctype, "max-age", 2, 2)

(* The mux, or op for what is in no mount, answers before noDirList, and   *)
(* noDirList outside cacheControl.                                         *)
AssetReply(q) ==
  LET route == Route(cfg, q.path) IN
  IF route \in {"unclean", "mount"} THEN Reply(301, "text/html", "none", NoLength, 1)
  ELSE IF route \in {"unmounted", "listing"} THEN Reply(404, "text/plain", "none", NoLength, 1)
  ELSE IF route = "missing" THEN Reply(404, "text/plain", "max-age", NoLength, 1)
  ELSE IF route \in {"index", "dir"} THEN Reply(301, "none", "max-age", NoLength, 0)
  ELSE FileReply(Disk[cfg.paths[<<q.path[1]>>]][Clean(Tail(q.path))], q)

(* A template may fail while it renders into the buffer. *)
Rendered == {Reply(200, "text/html", "none", NoLength, 1),
             Reply(500, "text/plain", "none", NoLength, 1)}

Answers(q) ==
  IF q.kind = "asset" THEN {AssetReply(q)}
  ELSE IF q.kind = "page" THEN Rendered
  ELSE {Reply(200, "text/plain", "none", NoLength, 1)}

(* The handler of q is called, through gzipHandler. *)
AcceptsGzip(q) == q.wants \in {"gzip", "changes"}
Begun(q, reply) ==
  [at |-> "begun", kind |-> q.kind, origin |-> q.origin, path |-> q.path,
   wants |-> q.wants, vary |-> IF AcceptsGzip(q) THEN "Accept-Encoding" ELSE "none",
   header |-> reply, encoding |-> "none", plain |-> 0, zipped |-> 0, trailer |-> "none"]

(* What is asked for: files of the mounts, those that claims refer to and  *)
(* others, and the pages.                                                  *)
AskedPaths == Claimed \cup {s \in Strays : <<s[1]>> \in DOMAIN Normalised(file).paths}
Asked ==
  {[kind |-> "asset", origin |-> p, path |-> p, wants |-> w] : p \in AskedPaths, w \in Wants}
  \cup {[kind |-> k, origin |-> <<>>, path |-> <<>>, wants |-> "gzip"] : k \in {"page", "up"}}

(* The n-th request arrives. *)
Accept(n, q) ==
  /\ main # "exited" /\ listener = "accepting"
  /\ reqs[n] = Idle /\ \A m \in 1..(n - 1) : reqs[m] # Idle
  /\ \E reply \in Answers(q) : reqs' = [reqs EXCEPT ![n] = Begun(q, reply)]
  /\ UNCHANGED <<process, listener, serveErr>>

(* The browser follows a redirect below Root. *)
FollowRedirect(n) ==
  /\ main # "exited" /\ listener = "accepting"
  /\ reqs[n].at = "done" /\ reqs[n].header.status = 301
  /\ LET q == [reqs[n] EXCEPT !.path = RedirectedTo(cfg, @)]
     IN  \E reply \in Answers(q) : reqs' = [reqs EXCEPT ![n] = Begun(q, reply)]
  /\ UNCHANGED <<process, listener, serveErr>>

-----------------------------------------------------------------------------
(* The ResponseWriters.                                                    *)

bodyless(status) == status < 200 \/ status \in {204, 304}

(* uncacheErrors, around the file server's writer. *)
Uncached(h) == [h EXCEPT !.cache = IF h.status < 400 THEN @ ELSE "none"]

Compresses(q) ==
  /\ AcceptsGzip(q)
  /\ ~bodyless(q.header.status)
  /\ q.encoding = "none"
  /\ q.header.ctype \in Compressible

(* The length is left as the handler declared it. *)
FaultyHeaderSent(q) ==
  [q EXCEPT !.at = "sending",
            !.header = Uncached(q.header),
            !.encoding = IF Compresses(q) THEN "gzip" ELSE @]

(* gzipResponseWriter.WriteHeader decides on compression with the header   *)
(* the handler has set, and corrects it.                                   *)
HeaderSent(q) ==
  [q EXCEPT !.at = "sending",
            !.header = [Uncached(q.header) EXCEPT
                          !.length = IF Compresses(q) THEN NoLength ELSE @],
            !.encoding = IF Compresses(q) THEN "gzip" ELSE @]

(* WriteHeader, called by the handler or by its first Write. *)
WriteHeader(n) ==
  /\ main # "exited" /\ reqs[n].at = "begun"
  /\ reqs' = [reqs EXCEPT ![n] = HeaderSent(@)]
  /\ UNCHANGED <<process, listener, serveErr>>

Written(q) ==
  [q EXCEPT !.header.chunks = @ - 1,
            !.plain  = IF q.encoding = "gzip" THEN @ ELSE @ + 1,
            !.zipped = IF q.encoding = "gzip" THEN @ + 1 ELSE @]

Write(n) ==
  /\ main # "exited" /\ reqs[n].at = "sending" /\ reqs[n].header.chunks > 0
  /\ reqs' = [reqs EXCEPT ![n] = Written(@)]
  /\ UNCHANGED <<process, listener, serveErr>>

(* The handler returns, and close writes the end of the gzip stream. *)
Returned(q) == [q EXCEPT !.at = "done", !.trailer = q.encoding]

Return(n) ==
  /\ main # "exited" /\ reqs[n].at = "sending" /\ reqs[n].header.chunks = 0
  /\ reqs' = [reqs EXCEPT ![n] = Returned(@)]
  /\ UNCHANGED <<process, listener, serveErr>>

-----------------------------------------------------------------------------
Main == LoadConfig \/ Build \/ SelectServeErr \/ SelectDone \/ Drained \/ DrainTimesOut \/ Exit

Next ==
  \/ Main
  \/ Signal
  \/ Listen \/ ListenerCloses \/ AcceptFails
  \/ \E n \in Requests :
       \/ \E q \in Asked : Accept(n, q)
       \/ FollowRedirect(n)
       \/ WriteHeader(n) \/ Write(n) \/ Return(n)

Spec == Init /\ [][Next]_vars

(* The two goroutines run and Shutdown's deadline passes.  Nothing is      *)
(* assumed of handlers, browsers or signals.                               *)
FairSpec == Spec /\ WF_vars(Main) /\ WF_vars(ListenerCloses)

-----------------------------------------------------------------------------
(* Properties.                                                             *)

(* What identifies a persona identifies one.  Each of its tokens leads     *)
(* back to it, and so does the sub that its card posts, unless another     *)
(* persona has the same sub after Load: subs are compared before           *)
(* references are rewritten, so exactly one of the two was configured as a *)
(* reference, and the other as the URL it stands for (config.go:105-111,   *)
(* persona.go:19-38, login.go:159-165, storage.go:100-106).                *)
NamedPersonaIsMeant ==
  Loaded =>
    LET ByReference(i) == IsRef(Normalised(file), file.personas[i].sub) IN
    \A i \in DOMAIN cfg.personas :
      /\ LET j == BySub(cfg, cfg.personas[i].sub)
         IN  j # i => ByReference(i) # ByReference(j)
      /\ \A t \in Range(cfg.personas[i].tokens) : ByToken(cfg, t) = i

(* The picker shows every persona, and once unless its group is declared   *)
(* twice (login.go:243-287).                                               *)
EveryPersonaIsShown ==
  Loaded => \A i \in DOMAIN cfg.personas :
    LET page  == Page(cfg)
        shown == {p \in (DOMAIN page) \X (DOMAIN cfg.personas) :
                    p[2] \in DOMAIN page[p[1]] /\ page[p[1]][p[2]] = i}
        declared == {k \in DOMAIN cfg.groups : cfg.groups[k].id = cfg.personas[i].group}
    IN  /\ shown # {}
        /\ Cardinality(declared) < 2 => Cardinality(shown) = 1

(* The case in which a login_hint is written decides whether it logs in a  *)
(* persona, never which one: two spellings of it log in different personas *)
(* only if each is, to the letter, the sub of its own (login.go:301-325).  *)
HintsIgnoreCase ==
  Loaded =>
    LET LoggingIn == {h \in ClaimValues(cfg) \cup DOMAIN CaseFolding :
                        hintedSub(cfg, h) # Absent}
    IN  \A h, k \in LoggingIn :
          Folded(h) = Folded(k) =>
            \/ hintedSub(cfg, h) = hintedSub(cfg, k)
            \/ hintedSub(cfg, h) = h /\ hintedSub(cfg, k) = k

(* "A config that loads cleanly is guaranteed to have no dangling static   *)
(* references" (config/static.go:35-36): a browser that follows a rewritten *)
(* claim, redirects included, gets the file.  The exceptions are the paths *)
(* that noDirList answers itself, one that ends in "/" and the index.html  *)
(* that the file server redirects to such a path, and those of a mount     *)
(* named ".", which the mux cleans away.                                   *)
Servable(p) == Last(p) # "" /\ Last(Clean(p)) # "index.html" /\ Head(p) # "."
ReferencesAreServed ==
  \A n \in Requests : reqs[n].at = "done" /\ reqs[n].header.status = 404 =>
    ~(reqs[n].origin \in Claimed /\ Servable(reqs[n].origin))

(* What a response says of itself is so when it has been sent: a           *)
(* compressed one is compressed throughout, closed, varies by              *)
(* Accept-Encoding and declares no length, any other has the length it     *)
(* declares, a partial one is never compressed, one without a body has     *)
(* none, and no error may be cached (gzip.go:19-77, static.go:28-50).      *)
HonestResponse(q) ==
  /\ IF q.encoding = "gzip"
       THEN /\ q.plain = 0 /\ q.trailer = "gzip"
            /\ q.vary = "Accept-Encoding" /\ q.header.length = NoLength /\ q.header.status # 206
       ELSE /\ q.zipped = 0 /\ q.trailer = "none"
            /\ q.header.length \in {NoLength, q.plain}
  /\ bodyless(q.header.status) => q.plain = 0 /\ q.zipped = 0
  /\ q.header.cache # "none" => q.header.status < 400
HonestResponses == \A n \in Requests : reqs[n].at = "done" => HonestResponse(reqs[n])

(* Exit code 0 means what TestServe's "graceful shutdown" waits for: a     *)
(* signal, and every request that had been accepted answered in full,      *)
(* although ListenAndServe returns, with nil, as soon as the shutdown      *)
(* begins (serve.go:46-71).                                                *)
GracefulMeansDrained ==
  result = "ok" =>
    signalled /\ \A n \in Requests : reqs[n].at \in {"idle", "done"}

(* A signal ends the process whatever the handlers do, and so does the     *)
(* failure of the listener (serve.go:55-71).                               *)
ServeEnds == signalled \/ serveErr = "failed" ~> main = "exited"
==============================================================================
