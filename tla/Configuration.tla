---------------------------- MODULE Configuration ----------------------------
(***************************************************************************)
(* What internal/config makes of a configuration file, and what the        *)
(* persona index, the picker and the static file server make of the        *)
(* configuration.  None of it changes after the start: these are operators *)
(* over a file or a loaded configuration, used by module Serve.            *)
(*                                                                         *)
(* A text in which a "/" matters (URL, claim, mount key) is the sequence   *)
(* of its segments: "/avatars" is <<"", "avatars">>, "http://h/" is        *)
(* <<"http://h", "">> and "hamnir://avatars/eve.svg" begins with the       *)
(* prefix as one segment.                                                  *)
(***************************************************************************)
EXTENDS Integers, FiniteSets, SequencesExt

CONSTANTS
  Disk,             \* directory |-> its files: path |-> content type
  Origins,          \* the first segments of well-formed http and https URLs
  Colours,          \* the well-formed colours
  SigningKeys,      \* the signing keys that decode to an RSA key
  Dotted,           \* the segments in which ".." occurs
  CaseFolding,      \* text |-> the text that stands for its case variants
  DefaultPrefix,    \* "hamnir://"
  DefaultLifetime   \* DefaultLifetimes: token kind |-> duration

(* The numbers in I in their order; SetToSortSeq(I, <), defined by the     *)
(* rank of each.                                                           *)
InOrder(I) ==
  [n \in 1..Cardinality(I) |-> CHOOSE i \in I : Cardinality({j \in I : j <= i}) = n]

Unset  == ""      \* a field that is not written, or written as empty text
Absent == <<>>    \* the same of a text of segments
Tokens == {"access", "id", "refresh"}

ASSUME LifetimeAssumption == DefaultLifetime \in [Tokens -> Nat \ {0}]

(* A file that parses: yaml.UnmarshalWithOptions refuses unknown fields.    *)
Fields == {"issuer", "browser", "clients", "audiences", "groups", "personas",
           "prefix", "paths", "lifetimes", "key"}
PersonaEntries ==
  [sub : Seq(STRING), email : Seq(STRING), picture : Seq(STRING),
   group : STRING, tokens : Seq(STRING)]
Parsed(f) ==
  /\ DOMAIN f = Fields
  /\ f.issuer \in Seq(STRING) /\ f.browser \in Seq(STRING)
  /\ f.groups \in Seq([id : STRING, colour : STRING])
  /\ f.personas \in Seq(PersonaEntries)
  /\ f.lifetimes \in [Tokens -> Int]

-----------------------------------------------------------------------------
(* Load: normalise.                                                        *)

(* strings.TrimSuffix(s, "/") and strings.TrimPrefix(s, "/").              *)
TrimSlash(s) == IF Len(s) > 1 /\ Last(s) = "" THEN Front(s) ELSE s
Mount(key) == IF Len(key) > 1 /\ Head(key) = "" THEN Tail(key) ELSE key

MountsClash(f) ==
  \E k, l \in DOMAIN f.paths : k # l /\ Mount(k) = Mount(l)

(* Lifetimes are taken as they are written. *)
FaultyNormalised(f) ==
  [f EXCEPT
    !.issuer  = TrimSlash(@),
    !.browser = TrimSlash(@),
    !.paths   = [m \in {Mount(k) : k \in DOMAIN @} |->
                   @[CHOOSE k \in DOMAIN @ : Mount(k) = m]],
    !.prefix  = IF @ = Unset THEN DefaultPrefix ELSE @]

Normalised(f) ==
  [f EXCEPT
    !.issuer    = TrimSlash(@),
    !.browser   = TrimSlash(@),
    !.paths     = [m \in {Mount(k) : k \in DOMAIN @} |->
                     @[CHOOSE k \in DOMAIN @ : Mount(k) = m]],
    !.prefix    = IF @ = Unset THEN DefaultPrefix ELSE @,
    !.lifetimes = [t \in Tokens |-> IF @[t] = 0 THEN DefaultLifetime[t] ELSE @[t]]]

-----------------------------------------------------------------------------
(* Load: Validate.                                                         *)

ValidAudiences(list) == Unset \notin Range(list) /\ IsInjective(list)
ValidURL(s) == Head(s) \in Origins

ClientsValid(c) ==
  /\ \A i \in DOMAIN c.clients :
       c.clients[i].id # Unset /\ ValidAudiences(c.clients[i].audiences)
  /\ \A i, j \in DOMAIN c.clients : c.clients[i].id = c.clients[j].id => i = j

(* Group ids may repeat. *)
GroupsValid(c) ==
  \A i \in DOMAIN c.groups :
    /\ c.groups[i].id # Unset
    /\ c.groups[i].colour \in {Unset} \cup Colours

(* Tokens are not compared across personas. *)
FaultyPersonasValid(c) ==
  /\ \A i \in DOMAIN c.personas :
       /\ c.personas[i].sub # Absent
       /\ c.personas[i].group \in {Unset} \cup {c.groups[k].id : k \in DOMAIN c.groups}
       /\ Unset \notin Range(c.personas[i].tokens) /\ IsInjective(c.personas[i].tokens)
  /\ \A i, j \in DOMAIN c.personas : c.personas[i].sub = c.personas[j].sub => i = j

PersonasValid(c) ==
  /\ \A i \in DOMAIN c.personas :
       /\ c.personas[i].sub # Absent
       /\ c.personas[i].group \in {Unset} \cup {c.groups[k].id : k \in DOMAIN c.groups}
       /\ Unset \notin Range(c.personas[i].tokens) /\ IsInjective(c.personas[i].tokens)
  /\ \A i, j \in DOMAIN c.personas : i # j =>
       /\ c.personas[i].sub # c.personas[j].sub
       /\ Range(c.personas[i].tokens) \cap Range(c.personas[j].tokens) = {}

URLsValid(c) ==
  /\ c.issuer # Absent => ValidURL(c.issuer)
  /\ c.browser # Absent => c.issuer # Absent /\ ValidURL(c.browser)

StaticValid(c) ==
  \A m \in DOMAIN c.paths :
    Len(m) = 1 /\ m[1] \notin {Unset} \cup Dotted /\ c.paths[m] # Unset

Valid(c) ==
  /\ ClientsValid(c)
  /\ ValidAudiences(c.audiences)
  /\ GroupsValid(c)
  /\ PersonasValid(c)
  /\ URLsValid(c)
  /\ \A t \in Tokens : c.lifetimes[t] >= 0
  /\ StaticValid(c)

-----------------------------------------------------------------------------
(* Load: the signing key and the static claim references.                  *)

baseURL(c) == IF c.browser # Absent THEN c.browser ELSE c.issuer

IsRef(c, v) == v # Absent /\ v[1] = c.prefix

(* A path without its empty segments and ".": what filepath.Join and       *)
(* path.Clean make of one without "..".                                    *)
Clean(p) ==
  LET kept == InOrder({i \in DOMAIN p : p[i] \notin {"", "."}})
  IN  [n \in DOMAIN kept |-> p[kept[n]]]
IsFile(dir, p) == dir \in DOMAIN Disk /\ Clean(p) \in DOMAIN Disk[dir]
IsDir(dir, p) == dir \in DOMAIN Disk /\ \E q \in DOMAIN Disk[dir] : IsStrictPrefix(Clean(p), q)

ASSUME DiskAssumption == \A dir \in DOMAIN Disk : <<>> \notin DOMAIN Disk[dir]

(* A directory passes for a file. *)
FaultyResolves(c, v) ==
  LET rest == SubSeq(v, 3, Len(v)) IN
  /\ Len(v) > 2 /\ v[2] # "" /\ rest # <<"">>
  /\ Range(rest) \cap Dotted = {}
  /\ <<v[2]>> \in DOMAIN c.paths
  /\ baseURL(c) # Absent
  /\ IsFile(c.paths[<<v[2]>>], rest) \/ IsDir(c.paths[<<v[2]>>], rest)

(* resolveRef: <mount>/<file>, of a configured mount and an existing file. *)
Resolves(c, v) ==
  LET rest == SubSeq(v, 3, Len(v)) IN
  /\ Len(v) > 2 /\ v[2] # "" /\ rest # <<"">>
  /\ Range(rest) \cap Dotted = {}
  /\ <<v[2]>> \in DOMAIN c.paths
  /\ baseURL(c) # Absent
  /\ IsFile(c.paths[<<v[2]>>], rest)

Root == ".static"
rewriteValue(c, v) == IF IsRef(c, v) THEN baseURL(c) \o <<Root>> \o Tail(v) ELSE v

(* The claims in which a reference may stand, of every persona.            *)
ClaimValues(c) ==
  UNION {{c.personas[i].sub, c.personas[i].email, c.personas[i].picture} :
           i \in DOMAIN c.personas}
References(c) == {v \in ClaimValues(c) : IsRef(c, v)}

resolveStaticClaims(c) ==
  [c EXCEPT !.personas = [i \in DOMAIN c.personas |->
     [c.personas[i] EXCEPT !.sub     = rewriteValue(c, @),
                           !.email   = rewriteValue(c, @),
                           !.picture = rewriteValue(c, @)]]]

Loads(f) ==
  LET c == Normalised(f) IN
  /\ ~MountsClash(f)
  /\ Valid(c)
  /\ c.key \in SigningKeys
  /\ \A v \in References(c) : Resolves(c, v)

Load(f) == resolveStaticClaims(Normalised(f))

-----------------------------------------------------------------------------
(* Personas and pages.  A persona is the index of its entry; 0 is nobody.  *)

Latest(S) == IF S = {} THEN 0 ELSE CHOOSE i \in S : \A j \in S : j <= i

(* NewSet and BySub, and NewStorage's exchangeTokens: the last entry wins. *)
BySub(c, sub) == Latest({i \in DOMAIN c.personas : c.personas[i].sub = sub})
ByToken(c, tok) == Latest({i \in DOMAIN c.personas : tok \in Range(c.personas[i].tokens)})

(* The cards of a group, in the order of the configuration. *)
Cards(c, gid) == InOrder({i \in DOMAIN c.personas : c.personas[i].group = gid})

(* The declared groups that have cards, in order. *)
Sections(c) == InOrder({k \in DOMAIN c.groups : Cards(c, c.groups[k].id) # <<>>})

(* The first persona of each group that is not declared. *)
Extras(c) ==
  InOrder({i \in DOMAIN c.personas :
             /\ c.personas[i].group \notin {c.groups[k].id : k \in DOMAIN c.groups}
             /\ \A j \in DOMAIN c.personas : j < i => c.personas[j].group # c.personas[i].group})

(* The personas whose group is not declared are forgotten. *)
FaultyPage(c) ==
  LET sections == Sections(c) IN [n \in DOMAIN sections |-> Cards(c, c.groups[sections[n]].id)]

(* buildPage: the cards of the declared groups, and then of the others as   *)
(* they first appear.                                                      *)
Page(c) ==
  LET sections == Sections(c)
      extras   == Extras(c)
  IN  [n \in DOMAIN sections |-> Cards(c, c.groups[sections[n]].id)]
      \o [n \in DOMAIN extras |-> Cards(c, c.personas[extras[n]].group)]

Folded(v) == IF v \in DOMAIN CaseFolding THEN CaseFolding[v] ELSE v

(* hintedSub: whom a login_hint may mean, and whom it logs in.             *)
Candidates(c, hint) ==
  {i \in DOMAIN c.personas :
     \/ c.personas[i].sub = hint
     \/ c.personas[i].email # Absent /\ Folded(c.personas[i].email) = Folded(hint)}

(* The first candidate is taken. *)
FaultyHintedSub(c, hint) ==
  IF hint = Absent \/ Candidates(c, hint) = {} THEN Absent
  ELSE c.personas[CHOOSE i \in Candidates(c, hint) :
                    \A j \in Candidates(c, hint) : i <= j].sub

hintedSub(c, hint) ==
  LET who == Candidates(c, hint) IN
  IF hint = Absent \/ Cardinality(who) # 1 THEN Absent
  ELSE c.personas[CHOOSE i \in who : TRUE].sub

-----------------------------------------------------------------------------
(* How net/http's mux, noDirList and net/http's file server take a path    *)
(* below Root, in a mount, and where a redirect leads.                     *)

MuxClean(p) == Clean(p) \o (IF Last(p) = "" THEN <<"">> ELSE <<>>)

Route(c, p) ==
  LET dir  == c.paths[<<p[1]>>]
      rest == Tail(p)
  IN  IF MuxClean(p) # p                  THEN "unclean"
      ELSE IF <<p[1]>> \notin DOMAIN c.paths THEN "unmounted"
      ELSE IF rest = <<>>                 THEN "mount"
      ELSE IF Last(p) = ""                THEN "listing"
      ELSE IF Last(p) = "index.html"      THEN "index"
      ELSE IF IsFile(dir, rest)           THEN "file"
      ELSE IF IsDir(dir, rest)            THEN "dir"
      ELSE "missing"

RedirectedTo(c, p) ==
  CASE Route(c, p) = "unclean"         -> MuxClean(p)
    [] Route(c, p) = "index"           -> Front(p) \o <<"">>
    [] Route(c, p) \in {"mount", "dir"} -> p \o <<"">>
==============================================================================
