----------------------------- MODULE MCServices -----------------------------
(***************************************************************************)
(* A small instance of module Services: two clients, whose requests are    *)
(* whole, cut, malformed, overlong, too long for the memory or answered    *)
(* without a model; networks of up to three agents, two of which may share *)
(* a name; three repositories, two of which share a directory.             *)
(***************************************************************************)
EXTENDS Services

Line(method, path) == <<"request", method, path>>
Chat == <<Line("POST", "/api/chat"), <<"length", 2>>>>

MCScripts ==
    { Chat \o <<<<"blank">>, <<"ask">>, <<"end">>>>,
      Chat \o <<<<"blank">>, <<"other">>, <<"end">>, <<"ask">>>>,
      Chat \o <<<<"length", 1>>, <<"blank">>, <<"ask">>, <<"end">>>>,
      <<Line("POST", "/api/chat"), <<"blank">>, <<"ask">>>>,
      <<Line("GET", "/"), <<"header">>, <<"blank">>>>,
      <<Line("OPTIONS", "/"), <<"blank">>>>,
      <<Line("GET", "/api/health"), <<"blank">>>>,
      <<Line("GET", "/none"), <<"blank">>>>,
      <<Line("POST", "/api/chat"), <<"length", 9>>, <<"blank">>, <<"ask">>>>,
      <<<<"malformed">>>>,
      <<>> }

MCRepos == { <<<<"a">>, <<"b", "c">>>>, <<<<"a", "b">>, <<"c">>>>, <<<<"d">>, <<"e">>>> }
MCLimitArgs == {<<>>, <<0>>, <<2>>}
=============================================================================
