------------------------------ MODULE Services ------------------------------
(***************************************************************************)
(* What a program does with the network: it serves requests, lets agents   *)
(* talk, or fetches the modules it needs.  A process of this interpreter   *)
(* does one thing at a time, so each behaviour is about one of the three.  *)
(***************************************************************************)
EXTENDS HttpServer, AiNetwork, ModuleCache, FiniteSets

VARIABLE job   \* "serve", "talk" or "fetch"

servicesVars == <<job, httpVars, netVars, cacheVars>>

Init == HttpInit /\ NetInit /\ CacheInit /\ job \in {"serve", "talk", "fetch"}

Serve(step) == job = "serve" /\ step /\ UNCHANGED <<job, netVars, cacheVars>>

Next ==
    \/ Serve(HttpNext)
    \/ job = "talk" /\ NetNext /\ UNCHANGED <<job, httpVars, cacheVars>>
    \/ job = "fetch" /\ CacheNext /\ UNCHANGED <<job, httpVars, netVars>>

\* The thread of the server goes on whenever it can; clients and programs owe
\* nobody anything.
Spec == Init /\ [][Next]_servicesVars /\ WF_servicesVars(Serve(ServerStep))

-----------------------------------------------------------------------------
(* Properties. *)

\* What a client is told is the answer to its own request and it is told so
\* once: the ids of NEXT_ID never let a reply reach another's connection, and a
\* request replied to again is left alone (http_reply).
AnsweredOnceAndOwn ==
    \A c \in Clients :
        /\ Len(got[c]) <= 1
        /\ got[c] # <<>> => got[c][1][2] = script[c][1]

\* While the server waits for a connection, every connection it keeps open is
\* that of a request someone can still reply to: clients that send nonsense or
\* nothing cost no slot of STREAMS (http_accept).
NoLostConnections ==
    pc \in {"accept", "user"} =>
        \A id \in DOMAIN streams : \E r \in held : r.id = id

\* A reply goes to the one who asked, as long as somebody can still give it; who
\* can no longer be answered is not kept waiting.
RepliesReachTheirClients == AnsweredOnceAndOwn /\ NoLostConnections

\* The request that a list of items amounts to: the last length before the
\* empty line tells how much of what follows is the body.
LinesBefore(items) ==
    LET blanks == {i \in DOMAIN items : items[i] = <<"blank">>}
    IN  IF blanks = {} THEN Len(items) ELSE CHOOSE i \in blanks : \A j \in blanks : i <= j

LengthOf(items) ==
    LET given == {i \in 1..LinesBefore(items) : items[i][1] = "length"}
    IN  IF given = {} THEN 0 ELSE items[CHOOSE i \in given : \A j \in given : j <= i][2]

\* A body is handed over whole or not at all: it has just the announced length,
\* whatever the client sent after it and wherever it hung up (parse_http_request).
BodyIsWhole ==
    \A r \in held : r.id \in DOMAIN streams =>
        LET c == streams[r.id]
            items == SubSeq(script[c], 1, sent[c])
        IN  /\ Len(r.body) = LengthOf(items)
            /\ r.body = SubSeq(items, LinesBefore(items) + 1, LinesBefore(items) + LengthOf(items))

\* The server waits for a client in the middle of its request.
Waiting == pc \in {"line", "headers", "body"} /\ ~Arrived /\ ~AtEof

\* Unless a client leaves it waiting for ever in the middle of a request, the
\* chat server comes to every connection, answers it or drops it, and closes
\* it, whatever else a client does (run_ai_chat_server): only a length for which
\* there is no memory ends it.
ChatServesEveryone ==
    []<>(~Waiting) =>
        \A c \in Clients :
            (job = "serve" /\ mode = "chat" /\ conn[c] = "queued")
                ~> conn[c] = "closed" \/ pc = "dead"

\* The agents that spoke in rounds i to j.
Speakers(i, j) == {talk[k].from : k \in i..j}

\* When names differ and nobody hands over to an agent by name, any stretch of
\* as many rounds as there are agents hears all of them (run_ai_network).
EveryoneSpeaks ==
    Cardinality(Range(agents)) = Len(agents) =>
        \A i \in DOMAIN talk :
            LET j == i + Len(agents) - 1 IN
            j \in DOMAIN talk /\ (\A k \in i..j : talk[k].reply \notin Range(agents))
                => Speakers(i, j) = Range(agents)

\* What the cache holds, and so what a fetch ever returns, an origin once sent
\* as a module, for this repository or one that shares its directory
\* (fetch_github_dep_to_cache).
CacheHasOrigin ==
    /\ \A d \in DOMAIN files : files[d].status = 200 /\ CacheDir(files[d].of) = d
    /\ \A a \in answers :
        a.bytes # Failure => a.bytes.status = 200 /\ CacheDir(a.bytes.of) = CacheDir(a.repo)

-----------------------------------------------------------------------------
(* Claims that the code does not meet (README, Findings): no run checks     *)
(* them, and TLC refutes each when it is added to the invariants of the    *)
(* run.                                                                    *)

\* eval.rs:2739-2740: "A misbehaving or speculatively-opened client must not bring
\* the chat server down".
ChatStaysUp == mode = "chat" => pc # "dead"

\* docs/language.md:1069: the allow-list of models is enforced at runtime.  A run
\* of a network that the capability in scope refuses asks nobody.
RefusedRunIsSilent == refused => talk = <<>>
=============================================================================
