----------------------------- MODULE MCChecker -----------------------------
(***************************************************************************)
(* Instances of Checker: modules whose bodies hold writes inside and       *)
(* outside intents, behind matches, spawns and the constructs the walks    *)
(* pass over; addresses computed, literal, behind other arguments and with *)
(* each part that the linter and the client read differently; signatures   *)
(* of each shape; nets and aliases with and without cycles; declarations   *)
(* with each error.                                                        *)
(***************************************************************************)
EXTENDS Checker

\* Bodies.
N(k, kids) == [k |-> k, m |-> "", o |-> "", args |-> <<>>, arms |-> <<>>, kids |-> kids]
Op(m, o, args) ==
    [k |-> "op", m |-> m, o |-> o, args |-> args, arms |-> <<>>, kids |-> <<>>]
Match(arms, kids) == [N("match", kids) EXCEPT !.arms = arms]
H1 == <<"h1">>
H2 == <<"h2">>
Url(host) == [scheme |-> "http", user |-> <<>>, host |-> host, port |-> "none", tail |-> ""]
MCTexts ==
    [u1    |-> [Url(H1) EXCEPT !.port = "u16", !.tail = "/"],
     u2    |-> Url(H2),
     h9    |-> Url(<<"h9">>),
     https |-> [Url(H1) EXCEPT !.scheme = "https"],
     me    |-> [Url(H1) EXCEPT !.user = <<"me@">>],
     query |-> [Url(H1) EXCEPT !.tail = "?"],
     port  |-> [Url(H1) EXCEPT !.port = "large"],
     body  |-> [Url(<<"b">>) EXCEPT !.scheme = ""]]
Arg(name, value) == [name |-> name, value |-> value]
Post(url) == Op("http", "post", <<Arg("", url), Arg("", "body")>>)
Get(url) == Op("http", "get", <<Arg("", url)>>)
Apply == Op("kube", "apply", <<>>)
Say == Op("io", "println", <<>>)
With(op, kids) == [op EXCEPT !.kids = kids]

\* Types.
T(k, name, args) == [k |-> k, name |-> name, version |-> 0, args |-> args,
                     star |-> FALSE, entries |-> <<>>]
IntT == T("named", "int", <<>>)
Nm(name) == T("named", name, <<>>)
Gen(name, args) == T("generic", name, args)
MCap(entries) == [T("cap", "", <<>>) EXCEPT !.entries = entries]
Star == [T("cap", "", <<>>) EXCEPT !.star = TRUE]
E(p) == Entry(p, Unlisted)
At(p, items) == Entry(p, Listed(items))
P(name, type) == [name |-> name, type |-> type]

\* Items.
Fn(name, params, body) == [kind |-> "fn", name |-> name, generics |-> <<>>,
                           params |-> params, ret |-> <<>>, body |-> body]
CapFn(entries, body) == Fn("f", <<P("cap", MCap(entries))>>, body)
Alias(name, target) == [kind |-> "alias", name |-> name, generics |-> <<>>, target |-> target]
Rec(name, fields) == [kind |-> "record", name |-> name, generics |-> <<>>, fields |-> fields]
Model(name, v) == [kind |-> "model", name |-> name, version |-> v, fields |-> <<>>]
Net(flows) == [kind |-> "net", name |-> "net", flows |-> flows]
Saga(steps) == [kind |-> "saga", name |-> "s", params |-> <<>>, steps |-> steps]
Step(name, noop, do) == [name |-> name, noop |-> noop, do |-> do]

Accepted ==
    [intent   |-> <<CapFn(<<E(<<"http">>)>>, <<N("intent", <<Post("u1"), Get("u2")>>), Get("u2")>>)>>,
     listed   |-> <<CapFn(<<At(<<"http", "post">>, <<H1, H2>>), At(<<"http", "get">>, <<H2>>)>>,
                          <<N("intent", <<With(Post("u1"), <<Get("u2")>>)>>), Get("any")>>)>>,
     matched  |-> <<CapFn(<<At(<<"http">>, <<H1>>), At(<<"kube", "apply">>, << <<"prod">> >>),
                            E(<<"io", "println">>), E(<<"fs", "walk">>)>>,
                          <<N("intent", <<Match(<<TRUE, FALSE>>, <<Apply, Post("u1")>>)>>),
                            Match(<<FALSE>>, <<Say>>)>>)>>,
     twoCaps  |-> <<CapFn(<<E(<<"http", "get">>), E(<<"http">>), E(<<"kube", "x">>)>>,
                          <<Get("u1"), N("walked", <<Get("any")>>)>>)>>,
     bucket   |-> <<CapFn(<<E(<<"minio", "get">>), At(<<"minio", "put">>, <<H1>>)>>,
                          <<N("intent", <<Op("minio", "put", <<>>)>>), Op("minio", "get", <<>>)>>)>>,
     buckets  |-> <<CapFn(<<At(<<"minio">>, <<H2>>), At(<<"minio", "put">>, <<H1>>)>>,
                          <<N("intent", <<Op("minio", "put", <<>>)>>)>>)>>,
     opaque   |-> <<CapFn(<<E(<<"io">>)>>, <<N("opaque", <<Post("u1")>>), Say>>)>>,
     main     |-> <<Fn("main", <<P("cap", Star)>>, <<N("intent", <<Post("u1")>>), Say>>)>>,
     noop     |-> <<Saga(<<Step("a", TRUE, <<Get("u1"), N("opaque", <<Post("u1")>>)>>),
                           Step("b", FALSE, <<Post("u1")>>)>>)>>,
     url      |-> <<CapFn(<<E(<<"http">>)>>,
                          <<N("intent", <<Op("http", "post", <<Arg("url", "u1"), Arg("body", "body")>>)>>),
                            Get("u2"), Get("port")>>)>>,
     body     |-> <<CapFn(<<E(<<"http">>)>>,
                          <<N("intent", <<Op("http", "post", <<Arg("body", "body"), Arg("url", "u1")>>),
                                          Post("u2")>>)>>)>>,
     short    |-> <<CapFn(<<E(<<"http">>)>>,
                          <<N("intent", <<Op("http", "post", <<Arg("body", "body")>>),
                                          Op("http", "put", <<Arg("to", "u1"), Arg("", "body")>>)>>)>>)>>,
     address  |-> <<CapFn(<<E(<<"http">>)>>, <<Get("me"), Get("query"), Get("https")>>)>>,
     wholes   |-> <<CapFn(<<E(<<"minio">>), E(<<"ai">>)>>,
                          <<Op("minio", "get", <<>>), Op("ai", "usage", <<>>)>>)>>,
     pipe     |-> <<[kind |-> "pipeline", name |-> "p", params |-> <<P("cap", MCap(<<E(<<"http">>)>>))>>,
                     body |-> <<Post("u1"), Get("u2")>>]>>]

Refused ==
    [bare     |-> <<CapFn(<<E(<<"http">>)>>, <<Match(<<FALSE>>, <<Post("u1")>>)>>)>>,
     pure     |-> <<Fn("f", <<>>, <<Say>>)>>,
     spawned  |-> <<CapFn(<<E(<<"http">>)>>, <<N("spawn", <<Say>>)>>)>>,
     unnamed  |-> <<CapFn(<<E(<<"http", "get">>)>>, <<Say>>)>>,
     noCap    |-> <<Fn("f", <<P("cap", IntT)>>, <<Say>>)>>,
     pipeless |-> <<[kind |-> "pipeline", name |-> "p", params |-> <<P("in", IntT)>>,
                     body |-> <<Say>>]>>,
     guarded  |-> <<Fn("f", <<>>, <<Match(<<TRUE, TRUE>>, <<>>)>>)>>,
     undoless |-> <<Saga(<<Step("a", TRUE, <<N("walked", <<Post("u1")>>)>>)>>)>>,
     ceiling  |-> <<CapFn(<<At(<<"http", "post">>, <<H1, <<"h9">> >>)>>, <<>>)>>,
     whole    |-> <<CapFn(<<At(<<"http">>, << <<"h9">> >>)>>, <<Get("h9")>>)>>,
     star     |-> <<Fn("f", <<P("cap", Star)>>, <<Say>>)>>]

Shapes ==
    [dup      |-> <<Rec("A", <<P("x", IntT), P("x", Nm("list"))>>), Alias("A", Nm("nowhere"))>>,
     models   |-> <<Model("M", 1), Model("M", 2), Model("M", 1),
                    Rec("R", <<P("m", Nm("M")), P("n", [T("model", "M", <<>>) EXCEPT !.version = 2])>>)>>,
     escapes  |-> <<Rec("R", <<P("c", Gen("channel", <<MCap(<<>>)>>))>>),
                    [kind |-> "enum", name |-> "En", generics |-> <<"T", "T">>,
                     variants |-> <<[name |-> "V", shape |-> "tuple", fields |-> <<P("", MCap(<<>>))>>]>>],
                    [kind |-> "const", name |-> "c", types |-> <<MCap(<<>>)>>],
                    [Fn("g", <<>>, <<>>) EXCEPT !.ret = <<Gen("option", <<MCap(<<>>)>>)>>]>>,
     arity    |-> <<Alias("A", Gen("map", <<IntT>>)), Alias("B", Gen("A", <<IntT>>))>>,
     agent    |-> <<[kind |-> "agent", name |-> "a", keys |-> {"llm", "intent"}],
                    [kind |-> "policy", name |-> "p"]>>,
     aliases1 |-> <<Alias("A", Nm("B")), Alias("B", Nm("A")), Alias("C", Nm("A"))>>,
     aliases2 |-> <<Alias("A", Gen("list", <<Nm("A")>>)), Alias("B", Nm("A")), Alias("C", Nm("C"))>>,
     aliases3 |-> <<Alias("A", Nm("B")), Alias("B", Nm("C")), Alias("C", Nm("int"))>>]

Nets ==
    [netLine  |-> <<Net(<< << <<1>>, <<2, 3>>, <<4>> >> >>)>>,
     netTwo   |-> <<Net(<< << <<1>>, <<2>> >>, << <<2>>, <<3>>, <<1>> >> >>)>>,
     netLater |-> <<Net(<< << <<1>>, <<2>>, <<3>> >>, << <<3>>, <<2>> >>, << <<1>>, <<3>> >> >>)>>,
     netSelf  |-> <<Net(<< << <<1>>, <<3>> >>, << <<2>>, <<2>> >> >>), Alias("A", IntT)>>,
     netTwice |-> <<Net(<< << <<1>>, <<2>> >>, << <<2>>, <<1>> >> >>), Net(<< << <<1>>, <<2>> >> >>)>>,
     netApart |-> <<Net(<< << <<3>>, <<1>> >>, << <<3>>, <<2>>, <<1>> >> >>)>>]

MCModules == Accepted @@ Refused @@ Shapes @@ Nets

Caps(enforce) ==
    [enforce |-> enforce, http_allow |-> <<H1, H2>>, fs_allow_read |-> <<>>,
     fs_allow_write |-> <<>>, kube_contexts |-> << <<"prod">> >>, ai_models |-> <<>>]
MCManifests == {Caps(e) : e \in {"strict", "loose", "off"}}
MCTargets == {H1, H2, <<"prod">>}
=============================================================================
