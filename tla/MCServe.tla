------------------------------- MODULE MCServe -------------------------------
(* Serve for TLC: a small disk, and a configuration file with every part    *)
(* varied in turn, to each value the code tells apart.                      *)
EXTENDS Serve

eve == <<"eve.svg">>
MCDisk ==
  [pics |-> (eve :> "image/svg+xml" @@ <<"index.html">> :> "text/html"
             @@ <<"sub", "bob.png">> :> "image/png")]

MCOrigins         == {"http://h", "https://b"}
MCColours         == {"#abc"}
MCSigningKeys     == {"rsa"}
MCDotted          == {"..", "a..b"}
MCCaseFolding     == (<<"A@x">> :> <<"a@x">> @@ <<"a@x">> :> <<"a@x">>)
MCDefaultPrefix   == "hamnir://"
MCDefaultLifetime == [access |-> 1, id |-> 3, refresh |-> 9]
MCUnpatternable   == {"my pics"}
MCCompressible    == {"text/html", "text/plain", "image/svg+xml"}
MCStrays          == {<<"pics", "gone.svg">>, <<"pics", "sub">>}

Persona(sub, email, picture, group, tokens) ==
  [sub |-> sub, email |-> email, picture |-> picture, group |-> group, tokens |-> tokens]
Ref(path) == <<"hamnir://", "avatars">> \o path

Ann == Persona(<<"ann">>, <<"A@x">>, Ref(eve), "g1", <<"t1", "t2">>)
Bob == Persona(<<"bob">>, <<"b@x">>, Absent, "", <<>>)
Cid == Persona(<<"cid">>, Absent, <<"http://h", "c.png">>, "g2", <<"t3">>)
Group(id) == [id |-> id, colour |-> "#abc"]
Client(id, audiences) == [id |-> id, audiences |-> audiences]

Base ==
  [issuer |-> <<"http://h", "">>, browser |-> Absent,
   clients |-> <<Client("c", <<"a">>), Client("d", <<>>)>>, audiences |-> <<"a", "b">>,
   groups |-> <<Group("g2"), Group("g0"), Group("g1")>>, personas |-> <<Ann, Bob, Cid>>,
   prefix |-> "", paths |-> (<<"", "avatars">> :> "pics"),
   lifetimes |-> [access |-> 0, id |-> 2, refresh |-> 0], key |-> "rsa"]

(* The persona Ann with another picture. *)
Pictured(v) == [Base EXCEPT !.personas[1].picture = v]

(* Without anything for browsers to fetch but the pages. *)
Bare == [Pictured(Absent) EXCEPT !.paths = <<>>]

(* What loads, and what a browser may follow. *)
Loadable ==
  {Base,
   [Base EXCEPT !.issuer = <<"http://h">>, !.browser = <<"https://b", "app", "">>],
   [Bare EXCEPT !.issuer = Absent, !.clients = <<>>],
   [Bare EXCEPT !.personas = <<>>, !.groups = <<>>],
   \* the same group twice, and a group only the last persona is in
   [Bare EXCEPT !.groups = <<Group("g1"), Group("g2"), Group("g1")>>,
                !.personas = <<Bob, @[1], [Bob EXCEPT !.sub = <<"dan">>], Cid>>],
   \* one email for two personas, and the email of one the sub of another
   [Bare EXCEPT !.personas[2].email = <<"a@x">>],
   [Bare EXCEPT !.personas[2].sub = <<"a@x">>],
   \* the other way round, and subs that differ only in case
   [Bare EXCEPT !.personas = <<[Bob EXCEPT !.sub = <<"a@x">>], @[1], Cid>>],
   [Bare EXCEPT !.personas = <<Bob, [Bob EXCEPT !.sub = <<"a@x">>], [Bob EXCEPT !.sub = <<"A@x">>]>>],
   \* a sub that is a reference, to the URL another persona has as its sub
   [Pictured(Absent) EXCEPT
      !.personas[2].sub = Ref(eve),
      !.personas[3].sub = <<"http://h", ".static", "avatars", "eve.svg">>],
   \* references that load: below a directory, with needless segments, to a
   \* file as if it were a directory, to an index.html, plainly or not
   Pictured(Ref(<<"sub", "bob.png">>)), Pictured(Ref(<<"", ".", "eve.svg">>)),
   Pictured(Ref(<<"eve.svg", "">>)), Pictured(Ref(<<"index.html">>)),
   Pictured(Ref(<<"index.html", ".">>)),
   \* of a mount that the mux cleans away, or takes for another
   [Pictured(<<"hamnir://", ".", "eve.svg">>) EXCEPT !.paths = <<".">> :> "pics"],
   [Pictured(<<"hamnir://", ".", "eve.svg">>) EXCEPT
      !.paths = (<<".">> :> "pics" @@ <<"eve.svg">> :> "pics")],
   \* another prefix, and one that URLs have as well
   [Pictured(<<"img:", "avatars", "eve.svg">>) EXCEPT !.prefix = "img:"],
   [Pictured(<<"http://h", "avatars", "eve.svg">>) EXCEPT
      !.prefix = "http://h", !.personas = <<@[1], Bob>>],
   \* a mount of which browsers ask for what nobody refers to
   [Bare EXCEPT !.paths = <<"pics">> :> "pics"],
   \* a mount that no pattern can hold
   [Base EXCEPT !.paths = (<<"avatars">> :> "pics" @@ <<"my pics">> :> "pics")]}

(* What must not load: one defect each. *)
Defective ==
  {[Base EXCEPT !.issuer = <<"ftp://h">>], [Base EXCEPT !.browser = <<"b">>],
   [Base EXCEPT !.issuer = Absent, !.browser = <<"https://b">>, !.personas = <<>>],
   [Base EXCEPT !.issuer = Absent],
   [Base EXCEPT !.clients[2].id = "c"], [Base EXCEPT !.clients[1].id = ""],
   [Base EXCEPT !.clients[1].audiences = <<"a", "a">>], [Base EXCEPT !.audiences = <<"">>],
   [Base EXCEPT !.groups[1].id = "", !.personas[3].group = ""],
   [Base EXCEPT !.groups[1].colour = "red"],
   [Base EXCEPT !.personas[2].sub = <<"ann">>], [Base EXCEPT !.personas[2].sub = Absent],
   [Base EXCEPT !.personas[2].group = "g9"], [Base EXCEPT !.personas[2].tokens = <<"">>],
   [Base EXCEPT !.personas[1].tokens = <<"t1", "t1">>],
   [Base EXCEPT !.personas[2].tokens = <<"t2">>],
   [Base EXCEPT !.lifetimes.id = -1], [Base EXCEPT !.key = "ec"],
   [Base EXCEPT !.paths = (<<"avatars">> :> "pics" @@ <<"", "avatars">> :> "pics")],
   [Base EXCEPT !.paths = (<<"avatars">> :> "pics" @@ <<"">> :> "pics")],
   [Base EXCEPT !.paths = (<<"avatars">> :> "pics" @@ <<"", "", "b">> :> "pics")],
   [Base EXCEPT !.paths = (<<"avatars">> :> "pics" @@ <<"..">> :> "pics")],
   [Base EXCEPT !.paths = (<<"avatars">> :> "")],
   Pictured(Ref(<<>>)), Pictured(Ref(<<"">>)), Pictured(<<"hamnir://", "", "eve.svg">>),
   Pictured(<<"hamnir://", "other", "eve.svg">>),
   Pictured(Ref(<<"gone.svg">>)), Pictured(Ref(<<"sub">>)),
   Pictured(Ref(<<"sub", "..", "eve.svg">>))}

ASSUME LoadableLoads == \A f \in Loadable : Loads(f)

MCFiles == Loadable \cup Defective
==============================================================================
