----------------------------- MODULE ModuleCache ----------------------------
(***************************************************************************)
(* The cache of fetched modules (manifest/fetch.rs) on top of the HTTP     *)
(* client (runtime/http.rs).  A fetch reads the file of the version if it  *)
(* is there, or else asks the origin and writes what came into place.  The *)
(* process may die while it writes, and the answer may break off.          *)
(***************************************************************************)
EXTENDS Integers, Sequences, SequencesExt

CONSTANTS
    Repos,      \* pairs of an owner and a repository, sequences of words
    MaxFetches  \* bound on the fetches of all runs

VARIABLES
    files,      \* the cache: directories to what their file holds
    fetch,      \* the repository being fetched, NoFetch between fetches
    response,   \* what came from its origin, NoBytes before
    answers,    \* what the fetches returned: [repo, bytes]
    fetches

cacheVars == <<files, fetch, response, answers, fetches>>

NoFetch == <<>>

\* A body: whose module it is, and whether all of it.
NoBytes == [of |-> NoFetch, whole |-> FALSE, status |-> 0]
Failure == NoBytes

CacheInit ==
    files = <<>> /\ fetch = NoFetch /\ response = NoBytes /\ answers = {} /\ fetches = 0

\* cache_dir_for writes every slash as an underscore: words are what
\* underscores separate, so the directory no longer tells owner from name.
CacheDir(repo) == repo[1] \o repo[2]

Settle(answer) ==
    /\ answers' = answers \cup {[repo |-> fetch, bytes |-> answer]}
    /\ fetch' = NoFetch /\ response' = NoBytes
    /\ UNCHANGED <<files, fetches>>

Fetch(repo) ==
    /\ fetch = NoFetch /\ fetches < MaxFetches
    /\ fetch' = repo /\ fetches' = fetches + 1
    /\ UNCHANGED <<files, response, answers>>

Cached == CacheDir(fetch) \in DOMAIN files

Hit == fetch # NoFetch /\ response = NoBytes /\ Cached /\ Settle(files[CacheDir(fetch)])

\* do_request: no connection, ten seconds without a byte, or an answer without
\* the end of its headers or with a status that is no number.
RequestFails ==
    /\ fetch # NoFetch /\ response = NoBytes /\ ~Cached
    /\ Settle(Failure)

\* The body is whatever came before the connection closed: its length is not
\* compared with Content-Length.
OriginAnswers(status, whole) ==
    /\ fetch # NoFetch /\ response = NoBytes /\ ~Cached
    /\ response' = [of |-> fetch, whole |-> whole, status |-> status]
    /\ UNCHANGED <<files, fetch, answers, fetches>>

BugAccepted == response.status \in {200, 404}   \* Seeded fault: any page is a module.

Accepted == response.status = 200

BadStatus == response # NoBytes /\ ~Accepted /\ Settle(Failure)

\* create_dir_all and fs::write in one, when all goes well.
Store ==
    /\ response # NoBytes /\ Accepted
    /\ files' = [d \in DOMAIN files \cup {CacheDir(fetch)} |->
                    IF d = CacheDir(fetch) THEN response ELSE files[d]]
    /\ answers' = answers \cup {[repo |-> fetch, bytes |-> response]}
    /\ fetch' = NoFetch /\ response' = NoBytes
    /\ UNCHANGED fetches

\* The disk is full, or the process dies and another begins: what was written
\* of the file stays.
StoreBreaks(begun) ==
    /\ response # NoBytes /\ Accepted
    /\ files' = IF ~begun THEN files
                ELSE [d \in DOMAIN files \cup {CacheDir(fetch)} |->
                        IF d = CacheDir(fetch) THEN [response EXCEPT !.whole = FALSE] ELSE files[d]]
    /\ fetch' = NoFetch /\ response' = NoBytes
    /\ UNCHANGED <<answers, fetches>>

CacheNext ==
    \/ \E repo \in Repos : Fetch(repo)
    \/ Hit \/ RequestFails \/ BadStatus \/ Store
    \/ \E status \in {200, 404}, whole \in BOOLEAN : OriginAnswers(status, whole)
    \/ \E begun \in BOOLEAN : StoreBreaks(begun)
=============================================================================
