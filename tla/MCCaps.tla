------------------------------- MODULE MCCaps -------------------------------
(***************************************************************************)
(* Instances of Caps: manifests with each enforcement mode, one missing    *)
(* and one that does not parse; narrowings that keep, restrict and try to  *)
(* broaden; calls of each kind of handler; a policy of every kind of       *)
(* clause, one of them about every call of a model.                        *)
(***************************************************************************)
EXTENDS Caps

Ceiling(level) ==
    [enforce |-> level, http_allow |-> <<(<<"h1">>), (<<"h2">>)>>,
     fs_allow_read |-> <<(<<"in", "**">>)>>,
     fs_allow_write |-> <<(<<"out", "*">>), (<<"tmp", "**">>)>>,
     kube_contexts |-> <<(<<"prod">>)>>,
     ai_models |-> <<(<<"opus">>), (<<"haiku">>)>>]

MCManifests ==
    {[read |-> "parsed", caps |-> Ceiling(e)] : e \in {"strict", "loose", "off"}}
    \union {[read |-> "unparsable", caps |-> Ceiling("strict")]}

Cap(entries) == [star |-> FALSE, entries |-> entries]

MCNarrowings ==
    { Cap(<<Entry(<<"http", "post">>, Listed(<<(<<"h1">>)>>)),
            Entry(<<"fs", "rename">>, Listed(<<(<<"out", "*">>)>>))>>),
      Cap(<<Entry(<<"fs", "rename">>, Unlisted)>>),
      Cap(<<Entry(<<"shell">>, Listed(<<(<<"git">>)>>)),
            Entry(<<"minio", "put">>, Listed(<<(<<"b1">>)>>))>>),
      Cap(<<Entry(<<"ai", "complete">>, Listed(<<(<<"haiku">>)>>))>>) }

MCSignatures ==
    { Cap(<<Entry(<<"http", "post">>, Listed(<<(<<"h2">>)>>)),
            Entry(<<"fs">>, Unlisted), Entry(<<"shell">>, Unlisted),
            Entry(<<"ai">>, Unlisted), Entry(<<"kube">>, Unlisted),
            Entry(<<"env">>, Unlisted), Entry(<<"clock">>, Unlisted)>>) }

Arg(n, v) == [name |-> n, value |-> v]
Positional(vals) == [k \in DOMAIN vals |-> Arg("", vals[k])]
BCall(m, op, args) == [module |-> m, op |-> op, args |-> args]

MCCalls ==
    { BCall("http", "post", <<Arg("body", <<"x">>), Arg("url", <<"h1">>)>>),
      BCall("http", "post", <<Arg("url", <<"h2">>), Arg("host", <<"x">>)>>),
      BCall("fs", "rename", <<Arg("to", <<"out", "a">>), Arg("from", <<"tmp", "x", "y">>)>>),
      BCall("fs", "read_text", Positional(<< <<"in", "a", "b">> >>)),
      BCall("fs", "write_file", Positional(<< <<"out", "a">>, <<"x">> >>)),
      BCall("shell", "pipe", Positional(<< << <<"git">>, <<"sh">> >> >>)),
      BCall("shell", "pipe", Positional(<< << <<"git">>, <<"git">> >> >>)),
      BCall("ai", "decide", Positional(<< <<"p">>, <<"c">> >>)),
      BCall("ai", "session_ask", Positional(<< <<"haiku">>, <<"p">> >>)),
      BCall("ai", "network_run", Positional(<< <<"p">> >>)),
      BCall("ai", "chat_ask", Positional(<< <<"opus">>, <<"p">> >>)),
      BCall("ai", "chat_ask", Positional(<< NoModel, <<"p">> >>)),
      BCall("ai", "agent", Positional(<< <<"p">> >>)),
      BCall("ai", "assert_semantic", Positional(<< <<"x">>, <<"p">> >>)),
      BCall("ai", "assert_judge", Positional(<< <<"opus">>, <<"p">> >>)),
      BCall("minio", "put", Positional(<< <<"b2">>, <<"k">>, <<"x">> >>)),
      BCall("kube", "apply", Positional(<< <<"prod">> >>)),
      BCall("env", "must_read", Positional(<< <<"key">> >>)),
      BCall("clock", "sleep", Positional(<< <<"1s">> >>)) }

Policy(name, match, when, require, deny, audit, limit) ==
    [name |-> name, match |-> match, when |-> when, require |-> require, deny |-> deny,
     audit |-> audit, limit |-> limit]
MCPolicies == << Policy("p1", {<<"fs", "rename">>, <<"shell">>}, 1, 1, 1, 0, 1),
                 Policy("p2", {<<"http", "*">>, <<"ai", "*">>}, 0, 2, 0, 1, 0),
                 Policy("idle", {<<"fs">>}, 0, 1, 0, 0, 0) >>
MCActiveNames == {"p1", "p2"}

MCBackend == [m \in L2Modules |-> IF m = "kube" THEN "real"
                                  ELSE IF m = "minio" THEN "loaded" ELSE "mock"]
=============================================================================
