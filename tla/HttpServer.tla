----------------------------- MODULE HttpServer -----------------------------
(***************************************************************************)
(* The HTTP server of runtime/net_server.rs and its two users: a program   *)
(* that calls server.accept() and req.reply(), and the chat server that    *)
(* ai.chat(port:) runs.  One thread reads the connections one at a time,   *)
(* line by line, while the clients connect, send and hang up as they like. *)
(* A client sends a sequence of items: the request line, header lines, the *)
(* empty line and the pieces of the body.                                  *)
(***************************************************************************)
EXTENDS Integers, Sequences, Functions

CONSTANTS
    Clients,    \* the connections that may be opened
    Scripts,    \* what a client may send: sequences of items
    Statuses,   \* the statuses a program replies with
    SafeLength, \* the longest body for which there is memory for certain
    MaxReplies  \* bound on the replies a program makes

ASSUME ClientsAreServed == MaxReplies \in Nat /\ "nobody" \notin Clients
ASSUME ScriptsAreSequences == \A s \in Scripts : s \in Seq(Range(s))

VARIABLES
    mode,      \* "program" or "chat"
    pc,        \* "start", "user" (code of the program), "accept", "line", "headers",
               \* "body", "handle", "asking", "ended", "failed" (an EvalError) or
               \* "dead" (the process is gone)
    nextId,    \* NEXT_ID, which servers and connections share
    streams,   \* STREAMS: the client at the end of each open connection
    reading,   \* the request being parsed
    held,      \* the requests handed to the program or to the chat's handler
    replies,   \* calls of reply so far
    backlog,   \* connections not yet accepted, oldest first
    conn,      \* of a client: "none", "queued", "open", "closed" (by the server) or
               \* "reset" (the process died)
    script,    \* what each client set out to send
    sent,      \* how many items of it are under way or read
    hungup,    \* clients that closed their connection
    got        \* the responses written to each client

serverVars == <<mode, pc, nextId, streams, reading, held, replies>>
clientVars == <<script, sent, hungup>>
httpVars == <<serverVars, clientVars, backlog, conn, got>>

Request(item) == item[1] = "request"    \* <<"request", method, path>>

NotReading == [id |-> 0, client |-> "nobody", at |-> 0, line |-> <<>>,
               length |-> 0, body |-> <<>>]

HttpInit ==
    /\ mode \in {"program", "chat"} /\ pc = "start"
    /\ nextId = 1 /\ streams = <<>> /\ reading = NotReading
    /\ held = {} /\ replies = 0 /\ backlog = <<>>
    /\ conn = [c \in Clients |-> "none"]
    /\ script = [c \in Clients |-> <<>>] /\ sent = [c \in Clients |-> 0]
    /\ hungup = {} /\ got = [c \in Clients |-> <<>>]

-----------------------------------------------------------------------------
(* The clients. *)

Connect(c) ==
    /\ conn[c] = "none" /\ pc \notin {"start", "ended", "failed", "dead"}
    /\ conn' = [conn EXCEPT ![c] = "queued"]
    /\ backlog' = Append(backlog, c)
    /\ \E s \in Scripts : script' = [script EXCEPT ![c] = s]
    /\ UNCHANGED <<serverVars, sent, hungup, got>>

Send(c) ==
    /\ conn[c] \in {"queued", "open"} /\ c \notin hungup
    /\ sent[c] < Len(script[c])
    /\ sent' = [sent EXCEPT ![c] = @ + 1]
    /\ UNCHANGED <<serverVars, script, hungup, backlog, conn, got>>

\* A browser that is closed, or do_request whose ten seconds are over.
HangUp(c) ==
    /\ conn[c] \in {"queued", "open"} /\ c \notin hungup
    /\ hungup' = hungup \cup {c}
    /\ UNCHANGED <<serverVars, script, sent, backlog, conn, got>>

-----------------------------------------------------------------------------
(* The registry of connections. *)

BugIdAfter(id) == IF id = 1 THEN 2 ELSE id  \* Seeded fault: the counter stays behind.

IdAfter(id) == id + 1

Forget(id) == Restrict(streams, DOMAIN streams \ {id})

\* http_serve: the listener takes an id too.
Listen(ok) ==
    /\ pc = "start"
    /\ pc' = IF ~ok THEN "failed" ELSE IF mode = "chat" THEN "accept" ELSE "user"
    /\ nextId' = IF ok THEN IdAfter(nextId) ELSE nextId
    /\ UNCHANGED <<mode, streams, reading, held, replies, clientVars, backlog, conn, got>>

\* Where the server goes on when http_accept has failed: the chat server drops
\* the connection and accepts the next, in a program it is an EvalError.
BugAfterBadAccept == "failed"   \* Seeded fault: a bad client ends the chat server.

AfterBadAccept == IF mode = "chat" THEN "accept" ELSE "failed"

\* The connection is taken from the listener; without a second handle on it
\* (try_clone) it is dropped again, but its id is used up.
Accept(cloned) ==
    /\ pc = "accept" /\ backlog # <<>>
    /\ LET c == Head(backlog) IN
       /\ backlog' = Tail(backlog)
       /\ nextId' = IdAfter(nextId)
       /\ conn' = [conn EXCEPT ![c] = IF cloned THEN "open" ELSE "closed"]
       /\ IF cloned
          THEN /\ streams' = [id \in DOMAIN streams \cup {nextId} |->
                            IF id = nextId THEN c ELSE streams[id]]
               /\ reading' = [NotReading EXCEPT !.id = nextId, !.client = c]
               /\ pc' = "line"
          ELSE pc' = AfterBadAccept /\ UNCHANGED <<streams, reading>>
       /\ UNCHANGED <<mode, held, replies, clientVars, got>>

AcceptError ==
    /\ pc = "accept" /\ pc' = AfterBadAccept
    /\ UNCHANGED <<mode, nextId, streams, reading, held, replies, clientVars, backlog, conn, got>>

-----------------------------------------------------------------------------
(* parse_http_request: each step waits for an item or for the end of the   *)
(* input, for as long as it takes.                                         *)

Peer == reading.client

Arrived == reading.at < sent[Peer]

Item == script[Peer][reading.at + 1]

AtEof == ~Arrived /\ Peer \in hungup

\* The registry gives up its handle and the connection closes.
ParseFails ==
    /\ streams' = Forget(reading.id)
    /\ conn' = [conn EXCEPT ![Peer] = "closed"]
    /\ reading' = NotReading
    /\ pc' = AfterBadAccept

ReadRequestLine ==
    /\ pc = "line"
    /\ \/ AtEof /\ ParseFails
       \/ Arrived /\ ~Request(Item) /\ ParseFails
       \/ /\ Arrived /\ Request(Item)
          /\ reading' = [reading EXCEPT !.at = @ + 1, !.line = Item]
          /\ pc' = "headers"
          /\ UNCHANGED <<streams, conn>>
    /\ UNCHANGED <<mode, nextId, held, replies, clientVars, backlog, got>>

\* The end of the input ends the headers as the empty line does; the last
\* content-length that is a number counts.
ReadHeader ==
    /\ pc = "headers"
    /\ \/ AtEof /\ pc' = "body" /\ UNCHANGED reading
       \/ /\ Arrived
          /\ pc' = IF Item = <<"blank">> THEN "body" ELSE "headers"
          /\ reading' = [reading EXCEPT !.at = @ + 1,
                                        !.length = IF Item[1] = "length" THEN Item[2] ELSE @]
    /\ UNCHANGED <<mode, nextId, streams, held, replies, clientVars, backlog, conn, got>>

\* The buffer of the body, vec![0u8; content_length], is as long as the client
\* says before any of it has come: where there is no memory for it (or no such
\* length), the process panics or is aborted, with all its connections.
NoMemory ==
    /\ pc = "headers" /\ (AtEof \/ (Arrived /\ Item = <<"blank">>))
    /\ reading.length > SafeLength
    /\ pc' = "dead"
    /\ conn' = [c \in Clients |-> IF conn[c] \in {"queued", "open"} THEN "reset" ELSE conn[c]]
    /\ backlog' = <<>> /\ streams' = <<>> /\ held' = {} /\ reading' = NotReading
    /\ UNCHANGED <<mode, nextId, replies, clientVars, got>>

\* Seeded fault: the body ends where the input does.
BugBodyRead == Len(reading.body) = reading.length \/ AtEof

\* read_exact
BodyRead == Len(reading.body) = reading.length

ReadBody ==
    /\ pc = "body" /\ ~BodyRead
    /\ \/ AtEof /\ ParseFails
       \/ /\ Arrived
          /\ reading' = [reading EXCEPT !.at = @ + 1, !.body = Append(@, Item)]
          /\ UNCHANGED <<pc, streams, conn>>
    /\ UNCHANGED <<mode, nextId, held, replies, clientVars, backlog, got>>

HandOver ==
    /\ pc = "body" /\ BodyRead
    /\ held' = held \cup {[id |-> reading.id, line |-> reading.line, body |-> reading.body]}
    /\ reading' = NotReading
    /\ pc' = IF mode = "chat" THEN "handle" ELSE "user"
    /\ UNCHANGED <<mode, nextId, streams, replies, clientVars, backlog, conn, got>>

-----------------------------------------------------------------------------
(* http_reply: the connection leaves the registry before the response is   *)
(* written; a request that was replied to is left alone.  A write fails    *)
(* only when the client has hung up, and need not fail even then.          *)

Respond(r, status, written) ==
    IF r.id \notin DOMAIN streams
    THEN written /\ UNCHANGED <<streams, conn, got>>
    ELSE LET c == streams[r.id] IN
         /\ written \/ c \in hungup
         /\ streams' = Forget(r.id)
         /\ conn' = [conn EXCEPT ![c] = "closed"]
         /\ got' = IF written THEN [got EXCEPT ![c] = Append(@, <<status, r.line>>)] ELSE got

CallAccept ==
    /\ pc = "user" /\ pc' = "accept"
    /\ UNCHANGED <<mode, nextId, streams, reading, held, replies, clientVars, backlog, conn, got>>

\* .reply and .reply_json, on any request the program still has: also on one
\* it has replied to.
Reply(r, status, written) ==
    /\ pc = "user" /\ replies < MaxReplies /\ replies' = replies + 1
    /\ IF status \notin 100..599
       THEN pc' = "failed" /\ written /\ UNCHANGED <<streams, conn, got>>
       ELSE pc' = (IF written THEN "user" ELSE "failed") /\ Respond(r, status, written)
    /\ UNCHANGED <<mode, nextId, reading, held, clientVars, backlog>>

ProgramEnds ==
    /\ pc = "user" /\ pc' = "ended"
    /\ UNCHANGED <<mode, nextId, streams, reading, held, replies, clientVars, backlog, conn, got>>

-----------------------------------------------------------------------------
(* ai_chat_handle_request: one response to each request, whose failure to  *)
(* be written nobody hears of.                                             *)

\* What the chat reads in the body: pieces of a JSON object with a message,
\* of one without, or of something else.
Message(body) ==
    CASE \A i \in DOMAIN body : body[i] = <<"space">> -> "empty"
      [] body = <<<<"ask">>, <<"end">>>> -> "message"
      [] body = <<<<"other">>, <<"end">>>> -> "none"
      [] OTHER -> "invalid"

ChatCall(r) == r.line[2] = "POST" /\ r.line[3] = "/api/chat"

\* The model is asked only for a message.
Asks(r) == ChatCall(r) /\ Message(r.body) = "message"

\* The status of what is answered without the model; index.html may be missing.
DirectStatus(r) ==
    CASE r.line[2] = "OPTIONS" -> {204}
      [] r.line[2] # "OPTIONS" /\ r.line[3] = "/" -> {200, 500}
      [] ChatCall(r) -> {400}
      [] r.line[2] # "OPTIONS" /\ r.line[3] = "/api/health" -> {200}
      [] OTHER -> {404}

ChatResponds(r, status, written) ==
    /\ Respond(r, status, written)
    /\ held' = {} /\ pc' = "accept"
    /\ UNCHANGED <<mode, nextId, reading, replies, clientVars, backlog>>

Handle(written) ==
    /\ pc = "handle"
    /\ \E r \in held : ~Asks(r) /\ \E status \in DirectStatus(r) : ChatResponds(r, status, written)

\* One call of the model holds up every other client.
AskModel ==
    /\ pc = "handle" /\ \E r \in held : Asks(r)
    /\ pc' = "asking"
    /\ UNCHANGED <<mode, nextId, streams, reading, held, replies, clientVars, backlog, conn, got>>

ModelAnswers(ok, written) ==
    /\ pc = "asking"
    /\ \E r \in held : ChatResponds(r, IF ok THEN 200 ELSE 500, written)

-----------------------------------------------------------------------------

ServerStep ==
    \/ \E ok \in BOOLEAN : Listen(ok) \/ Accept(ok)
    \/ ReadRequestLine \/ ReadHeader \/ NoMemory \/ ReadBody \/ HandOver
    \/ AskModel
    \/ \E written \in BOOLEAN :
        Handle(written) \/ \E ok \in BOOLEAN : ModelAnswers(ok, written)

ProgramStep ==
    \/ CallAccept \/ ProgramEnds
    \/ \E r \in held, status \in Statuses, written \in BOOLEAN : Reply(r, status, written)

ClientStep == \E c \in Clients : Connect(c) \/ Send(c) \/ HangUp(c)

HttpNext == ServerStep \/ ProgramStep \/ AcceptError \/ ClientStep

\* The server's thread goes on whenever it can; the clients and the program
\* owe nobody anything.
HttpSpec == HttpInit /\ [][HttpNext]_httpVars /\ WF_httpVars(ServerStep)
=============================================================================
