--------------------------- MODULE MCTokenEndpoint ---------------------------
(* TokenEndpoint with four configurations and a sample of requests.       *)
EXTENDS TokenEndpoint, TLC

MCName ==
  {"", "openid", "profile", "email", "org", "alice", "api", "mine", "more", "other", "static",
   "issued", "persona", "access_token", "refresh_token", "id_token", "jwt"}
MCText == {"", "app", "spa", "x", "s+t", "s t"}
MCWire == {"", "app", "spa", "x", "s%2Bt", "s+t", "%61pp", "%"}

MCQueryEscape(s) == CASE s = "s+t" -> "s%2Bt" [] s = "s t" -> "s+t" [] OTHER -> s
MCQueryUnescape(w) ==
  CASE w = "s%2Bt" -> "s+t" [] w = "s+t" -> "s t" [] w = "%61pp" -> "app"
    [] w = "%" -> Undecodable [] OTHER -> w

(* A persona with claims of every sort, a scope that gates one of them and *)
(* one that names a standard claim; permissive, registered, and registered *)
(* without global audiences.                                               *)
Common ==
  [audiences |-> {"api"}, tokens |-> ("static" :> "alice"),
   personas |-> ("alice" :> {"sub", "name", "email", "dept", "team"}),
   scopes |-> ("org" :> {"dept", "email"})]
Confidential == [secret |-> "s+t", own |-> TRUE, audiences |-> {"mine"}]
Public == [secret |-> "", own |-> FALSE, audiences |-> {}]
OptedOut == [secret |-> "x", own |-> TRUE, audiences |-> {}]

With(clients, audiences) == [Common EXCEPT !.audiences = audiences] @@ [clients |-> clients]
MCConfigs ==
  {With(<<>>, {"api"}),
   With("app" :> Confidential @@ "spa" :> Public, {"api"}),
   With("app" :> OptedOut @@ "spa" :> Public, {"api", "more"}),
   With("app" :> Confidential @@ "spa" :> Public, {})}

None == [sent |-> FALSE, id |-> "", secret |-> ""]
Basic(id, secret) == [sent |-> TRUE, id |-> id, secret |-> secret]
Body(id, secret) == [id |-> id, secret |-> secret]

Exchange ==
  [kind |-> "exchange", parses |-> TRUE, challenge |-> FALSE, basic |-> Basic("app", "s%2Bt"),
   body |-> Body("", ""), subjectToken |-> "static", subjectType |-> "persona",
   requested |-> "", scopes |-> {}, audience |-> {}]

(* Credentials: rightly and wrongly encoded, malformed, of a public client *)
(* with and without a secret, in the header, the body, both and neither.   *)
Credentials ==
  {[Exchange EXCEPT !.basic = h, !.body = b] :
     h \in {Basic("app", "s%2Bt"), Basic("app", "s+t"), Basic("%61pp", "s%2Bt"), Basic("app", "%"),
            Basic("%", ""), Basic("app", "x"), Basic("spa", ""), Basic("spa", "x"), None},
     b \in {Body("", ""), Body("app", "s+t"), Body("app", "s t"), Body("app", "x"), Body("spa", "")}}

Exchanges ==
  {[Exchange EXCEPT !.requested = r] : r \in {"", "refresh_token", "id_token", "jwt"}}
  \cup {[Exchange EXCEPT !.requested = r, !.audience = {"other"}] : r \in {"refresh_token", "id_token"}}
  \cup {[Exchange EXCEPT !.requested = r, !.scopes = {"openid", "org"}] : r \in {"", "id_token"}}
  \cup {[Exchange EXCEPT !.subjectToken = "other"],
        [Exchange EXCEPT !.subjectType = "access_token"],
        [Exchange EXCEPT !.subjectToken = "issued", !.subjectType = "access_token"],
        [Exchange EXCEPT !.parses = FALSE]}

Code == [Exchange EXCEPT !.kind = "code", !.scopes = {"openid", "email", "org"}]
Codes ==
  {[Code EXCEPT !.challenge = TRUE],
   [Code EXCEPT !.basic = Basic("spa", "")],
   [Code EXCEPT !.basic = Basic("spa", ""), !.challenge = TRUE],
   [Code EXCEPT !.basic = None, !.body = Body("app", "x")]}

Others ==
  {[Exchange EXCEPT !.kind = k, !.basic = b] :
     k \in {"refresh", "introspect"}, b \in {Basic("app", "s%2Bt"), Basic("spa", ""), Basic("%", "")}}

(* With an access token of whatever login. *)
Userinfos == {[Exchange EXCEPT !.kind = "userinfo", !.basic = None]}

MCRequests == Userinfos \cup Credentials \cup Exchanges \cup Codes \cup Others

Symmetry == Permutations(Procs)
==============================================================================
