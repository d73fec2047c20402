---------------------------- MODULE EffectsProofs ----------------------------
(***************************************************************************)
(* The effects of a program: replies reach their clients and bodies are    *)
(* whole, every agent's turn comes, the cache holds what origins sent, no  *)
(* module runs unverified, stores keep each key once and every message,    *)
(* and no builtin acts beyond the capability and the policies it is called *)
(* under.  For any clients, agents, repositories, modules, documents,      *)
(* manifests, functions and policies.                                      *)
(***************************************************************************)
EXTENDS Services, Backends, Caps, CommonProofs

-----------------------------------------------------------------------------
(* The server.                                                             *)

Parsing == {"line", "headers", "body"}
Handling == {"handle", "asking"}

\* What the variables hold; of the requests only the parts that decide where a
\* reply goes.
ServerTypes ==
    /\ nextId \in Nat
    /\ mode \in {"program", "chat"}
    /\ pc \in {"start", "user", "accept", "ended", "failed", "dead"} \cup Parsing \cup Handling
    /\ conn \in [Clients -> {"none", "queued", "open", "closed", "reset"}]
    /\ script \in [Clients -> Scripts \cup {<<>>}]
    /\ got = [c \in Clients |-> got[c]]
    /\ reading = [id |-> reading.id, client |-> reading.client, at |-> reading.at,
                  line |-> reading.line, length |-> reading.length, body |-> reading.body]

\* A connection waits in the backlog once, and until it is accepted.
BacklogWaits ==
    /\ backlog \in Seq(Clients)
    /\ \A i, j \in DOMAIN backlog : backlog[i] = backlog[j] => i = j
    /\ \A i \in DOMAIN backlog : conn[backlog[i]] = "queued"

\* The registry holds open connections, each under one id, and NEXT_ID is ahead
\* of all ids.
Registry ==
    /\ \A id \in DOMAIN streams :
        id \in Nat /\ id < nextId /\ streams[id] \in Clients /\ conn[streams[id]] = "open"
    /\ \A i, j \in DOMAIN streams : streams[i] = streams[j] => i = j

\* The request being read belongs to the connection of its id.
ReadingOwn ==
    pc \in Parsing =>
        /\ reading.id \in DOMAIN streams
        /\ streams[reading.id] = reading.client
        /\ pc = "line" => reading.at = 0
        /\ pc # "line" => reading.line = script[reading.client][1]

\* So does a request that somebody can still reply to.
HeldOwn ==
    \A r \in held :
        /\ r.id \in Nat /\ r.id < nextId
        /\ r.id \in DOMAIN streams => r.line = script[streams[r.id]][1]

\* Every open connection has its request, or is being read.
AllAccounted ==
    \A id \in DOMAIN streams :
        (\E r \in held : r.id = id) \/ (pc \in Parsing /\ id = reading.id)

\* Only the chat server handles requests itself, and one at a time.
OneAtATime ==
    /\ pc \in Handling => mode = "chat"
    /\ mode = "chat" => IF pc \in Handling THEN \E r : held = {r} ELSE held = {}

\* What a client has got is the answer to what it sent first; one that is still
\* connected has got nothing.
GotOwn ==
    \A c \in Clients :
        /\ got[c] # <<>> => \E st : got[c] = << <<st, script[c][1]>> >>
        /\ conn[c] # "closed" => got[c] = <<>>

ServerInv ==
    /\ ServerTypes /\ BacklogWaits /\ Registry /\ ReadingOwn /\ HeldOwn
    /\ AllAccounted /\ OneAtATime /\ GotOwn

LEMMA ServerInitInv == HttpInit => ServerInv
<1> SUFFICES ASSUME HttpInit PROVE ServerInv
  OBVIOUS
<1> USE DEF HttpInit
<1>1. ServerTypes
  BY DEF ServerTypes, NotReading
<1>2. BacklogWaits
  BY DEF BacklogWaits
<1>3. DOMAIN streams = {}
  OBVIOUS
<1>4. Registry /\ AllAccounted
  BY <1>3 DEF Registry, AllAccounted
<1>5. ReadingOwn /\ HeldOwn /\ OneAtATime
  BY DEF ReadingOwn, HeldOwn, OneAtATime, Parsing, Handling
<1>6. GotOwn
  BY DEF GotOwn
<1> QED BY <1>1, <1>2, <1>4, <1>5, <1>6 DEF ServerInv

LEMMA ServerInvMeans == ServerInv => RepliesReachTheirClients
<1> SUFFICES ASSUME ServerInv PROVE RepliesReachTheirClients
  OBVIOUS
<1>1. AnsweredOnceAndOwn
  <2> SUFFICES ASSUME NEW c \in Clients
               PROVE  Len(got[c]) <= 1 /\ (got[c] # <<>> => got[c][1][2] = script[c][1])
    BY DEF AnsweredOnceAndOwn
  <2>1. CASE got[c] = <<>>
    BY <2>1
  <2>2. CASE got[c] # <<>>
    <3>1. PICK st : got[c] = << <<st, script[c][1]>> >>
      BY <2>2 DEF ServerInv, GotOwn
    <3> QED BY <3>1
  <2> QED BY <2>1, <2>2
<1>2. NoLostConnections
  BY DEF ServerInv, AllAccounted, NoLostConnections, Parsing
<1> QED BY <1>1, <1>2 DEF RepliesReachTheirClients

LEMMA ForgetFacts ==
    ASSUME NEW id
    PROVE  /\ DOMAIN Forget(id) = DOMAIN streams \ {id}
           /\ \A j \in DOMAIN Forget(id) : Forget(id)[j] = streams[j]
BY DEF Forget, Restrict

\* A connection that is given up leaves the registry and the backlog in order.
LEMMA GivenUp ==
    ASSUME ServerTypes, BacklogWaits, Registry, NEW id \in DOMAIN streams,
           streams' = Forget(id), conn' = [conn EXCEPT ![streams[id]] = "closed"],
           UNCHANGED <<nextId, backlog>>
    PROVE  /\ BacklogWaits' /\ Registry'
           /\ conn' \in [Clients -> {"none", "queued", "open", "closed", "reset"}]
<1>1. streams[id] \in Clients /\ conn[streams[id]] = "open"
  BY DEF Registry
<1>2. conn' \in [Clients -> {"none", "queued", "open", "closed", "reset"}]
  BY DEF ServerTypes
<1>3. \A c \in Clients : c # streams[id] => conn'[c] = conn[c]
  BY DEF ServerTypes
<1>4. BacklogWaits'
  <2>1. \A i \in DOMAIN backlog : backlog[i] \in Clients /\ backlog[i] # streams[id]
    BY <1>1 DEF BacklogWaits
  <2> QED BY <1>3, <2>1 DEF BacklogWaits
<1>5. Registry'
  <2>1. \A j \in DOMAIN streams' :
            j \in DOMAIN streams /\ j # id /\ streams'[j] = streams[j]
    BY ForgetFacts
  <2>2. \A j \in DOMAIN streams' : streams[j] # streams[id]
    BY <2>1 DEF Registry
  <2>3. \A j \in DOMAIN streams' :
            j \in Nat /\ j < nextId' /\ streams'[j] \in Clients /\ conn'[streams'[j]] = "open"
    BY <2>1, <2>2, <1>3 DEF Registry
  <2> QED BY <2>1, <2>3 DEF Registry
<1> QED BY <1>2, <1>4, <1>5

\* Clients: a new connection is that of a client that has none, and what the
\* others set out to send stays.
LEMMA ClientKeeps ==
    ASSUME ServerInv, NEW c \in Clients, Connect(c) \/ Send(c) \/ HangUp(c)
    PROVE  ServerInv'
<1> USE DEF ServerInv
<1>1. CASE Send(c) \/ HangUp(c)
  <2>1. UNCHANGED <<serverVars, script, backlog, conn, got>>
    BY <1>1 DEF Send, HangUp
  <2> QED BY <2>1 DEF ServerTypes, BacklogWaits, Registry, ReadingOwn, HeldOwn,
             AllAccounted, OneAtATime, GotOwn, serverVars
<1>2. CASE Connect(c)
  <2>1. /\ conn[c] = "none" /\ conn' = [conn EXCEPT ![c] = "queued"]
        /\ backlog' = Append(backlog, c)
        /\ UNCHANGED <<mode, pc, nextId, streams, reading, held, replies, got>>
    BY <1>2 DEF Connect, serverVars
  <2>2. PICK s \in Scripts : script' = [script EXCEPT ![c] = s]
    BY <1>2 DEF Connect
  <2>3. \A d \in Clients : d # c => conn'[d] = conn[d] /\ script'[d] = script[d]
    BY <2>1, <2>2 DEF ServerTypes
  <2>4. conn'[c] = "queued"
    BY <2>1 DEF ServerTypes
  <2>5. ServerTypes'
    BY <2>1, <2>2 DEF ServerTypes
  <2>6. BacklogWaits'
    <3>1. \A i \in DOMAIN backlog : backlog[i] \in Clients /\ backlog[i] # c
      BY <2>1 DEF BacklogWaits
    <3>2. /\ backlog' \in Seq(Clients) /\ DOMAIN backlog' = 1..(Len(backlog) + 1)
          /\ \A i \in DOMAIN backlog : backlog'[i] = backlog[i]
          /\ backlog'[Len(backlog) + 1] = c
      BY <2>1 DEF BacklogWaits
    <3>3. \A i \in DOMAIN backlog' : i \in DOMAIN backlog \/ i = Len(backlog) + 1
      BY <3>2 DEF BacklogWaits
    <3> QED BY <3>1, <3>2, <3>3, <2>3, <2>4 DEF BacklogWaits
  <2>7. \A id \in DOMAIN streams : streams[id] # c
    BY <2>1 DEF Registry
  <2>8. Registry'
    BY <2>1, <2>3, <2>7 DEF Registry
  <2>9. ReadingOwn' /\ HeldOwn'
    <3>1. \A id \in DOMAIN streams : script'[streams[id]] = script[streams[id]]
      BY <2>3, <2>7 DEF Registry
    <3> QED BY <2>1, <3>1 DEF ReadingOwn, HeldOwn
  <2>10. AllAccounted' /\ OneAtATime'
    BY <2>1 DEF AllAccounted, OneAtATime
  <2>11. GotOwn'
    <3>1. got[c] = <<>>
      BY <2>1 DEF GotOwn
    <3> QED BY <2>1, <2>3, <3>1 DEF GotOwn
  <2> QED BY <2>5, <2>6, <2>8, <2>9, <2>10, <2>11
<1> QED BY <1>1, <1>2

\* The program calls accept, ends or listens, and steps that only change what
\* is known of the request being read.
LEMMA QuietKeeps ==
    ASSUME ServerInv,
           CallAccept \/ ProgramEnds \/ AcceptError \/ AskModel \/ \E ok \in BOOLEAN : Listen(ok)
    PROVE  ServerInv'
<1>1. UNCHANGED <<mode, streams, reading, held, script, backlog, conn, got>>
  BY DEF CallAccept, ProgramEnds, AcceptError, AskModel, Listen, clientVars
<1>2. nextId' \in Nat /\ nextId <= nextId'
  BY DEF CallAccept, ProgramEnds, AcceptError, AskModel, Listen, IdAfter, ServerInv, ServerTypes
<1>3. pc \notin Parsing /\ pc' \notin Parsing /\ (pc \in Handling <=> pc' \in Handling)
      /\ pc' \in {"user", "accept", "asking", "ended", "failed"}
  BY DEF CallAccept, ProgramEnds, AcceptError, AskModel, Listen, AfterBadAccept, Parsing, Handling
<1>4. ServerTypes' /\ BacklogWaits' /\ Registry' /\ GotOwn'
  BY <1>1, <1>2, <1>3 DEF ServerInv, ServerTypes, BacklogWaits, Registry, GotOwn, Handling
<1>5. ReadingOwn' /\ AllAccounted' /\ OneAtATime'
  BY <1>1, <1>3 DEF ServerInv, ReadingOwn, AllAccounted, OneAtATime
<1>6. HeldOwn'
  BY <1>1, <1>2 DEF ServerInv, ServerTypes, HeldOwn
<1> QED BY <1>4, <1>5, <1>6 DEF ServerInv

\* A connection is accepted under an id no request has.
LEMMA AcceptKeeps ==
    ASSUME ServerInv, NEW cloned \in BOOLEAN, Accept(cloned)
    PROVE  ServerInv'
<1> DEFINE c == Head(backlog)
<1>1. /\ pc = "accept" /\ backlog # <<>>
      /\ backlog' = Tail(backlog) /\ nextId' = nextId + 1
      /\ conn' = [conn EXCEPT ![c] = IF cloned THEN "open" ELSE "closed"]
      /\ UNCHANGED <<mode, held, script, got>>
  BY DEF Accept, IdAfter, clientVars
<1>2. /\ c \in Clients /\ c = backlog[1] /\ 1 \in DOMAIN backlog /\ conn[c] = "queued"
  BY <1>1 DEF ServerInv, BacklogWaits
<1>3. /\ conn' \in [Clients -> {"none", "queued", "open", "closed", "reset"}]
      /\ \A d \in Clients : d # c => conn'[d] = conn[d]
      /\ conn'[c] = IF cloned THEN "open" ELSE "closed"
  BY <1>1, <1>2 DEF ServerInv, ServerTypes
<1>4. BacklogWaits'
  <2>1. /\ backlog' \in Seq(Clients) /\ DOMAIN backlog' = 1..(Len(backlog) - 1)
        /\ DOMAIN backlog = 1..Len(backlog) /\ Len(backlog) \in Nat
        /\ \A i \in DOMAIN backlog' : backlog'[i] = backlog[i + 1]
    BY <1>1 DEF ServerInv, BacklogWaits
  <2>2. \A i \in DOMAIN backlog' : i + 1 \in DOMAIN backlog /\ i + 1 # 1
    BY <2>1
  <2>3. \A i, j \in DOMAIN backlog : backlog[i] = backlog[j] => i = j
    BY DEF ServerInv, BacklogWaits
  <2>4. \A i \in DOMAIN backlog' : backlog'[i] # c
    BY <2>1, <2>2, <2>3, <1>2
  <2>5. \A i \in DOMAIN backlog' : backlog'[i] \in Clients /\ conn[backlog'[i]] = "queued"
    BY <2>1, <2>2 DEF ServerInv, BacklogWaits
  <2>6. \A i, j \in DOMAIN backlog' : backlog'[i] = backlog'[j] => i = j
    <3> SUFFICES ASSUME NEW i \in DOMAIN backlog', NEW j \in DOMAIN backlog',
                        backlog'[i] = backlog'[j]
                 PROVE  i = j
      OBVIOUS
    <3>1. i + 1 = j + 1
      BY <2>1, <2>2, <2>3
    <3> QED BY <3>1, <2>1
  <2> QED BY <2>1, <2>4, <2>5, <2>6, <1>3 DEF BacklogWaits
<1>5. \A id \in DOMAIN streams : /\ id \in Nat /\ id < nextId /\ streams[id] \in Clients
                                /\ streams[id] # c /\ conn'[streams[id]] = "open"
  BY <1>2, <1>3 DEF ServerInv, Registry
<1>6. GotOwn'
  BY <1>1, <1>2, <1>3 DEF ServerInv, GotOwn
<1>7. nextId \in Nat /\ nextId' \in Nat /\ nextId < nextId'
  BY <1>1 DEF ServerInv, ServerTypes
<1>8. CASE cloned
  <2>1. /\ DOMAIN streams' = DOMAIN streams \cup {nextId} /\ streams'[nextId] = c
        /\ \A id \in DOMAIN streams : id # nextId => streams'[id] = streams[id]
        /\ reading' = [NotReading EXCEPT !.id = nextId, !.client = c] /\ pc' = "line"
    BY <1>8 DEF Accept
  <2>2. \A id \in DOMAIN streams : id # nextId
    BY <1>5, <1>7
  <2>3. ServerTypes'
    BY <1>1, <1>3, <1>7, <2>1 DEF ServerInv, ServerTypes, NotReading, Parsing
  <2>4. Registry'
    <3>1. \A id \in DOMAIN streams' : id = nextId \/ id \in DOMAIN streams
      BY <2>1
    <3>2. \A id \in DOMAIN streams :
            id \in Nat /\ id < nextId' /\ streams'[id] = streams[id] /\ streams'[id] # c
      BY <2>1, <2>2, <1>5, <1>7
    <3>3. \A id \in DOMAIN streams' :
            id \in Nat /\ id < nextId' /\ streams'[id] \in Clients /\ conn'[streams'[id]] = "open"
      BY <3>1, <3>2, <2>1, <1>2, <1>3, <1>5, <1>7, <1>8
    <3>4. \A i, j \in DOMAIN streams' : streams'[i] = streams'[j] => i = j
      BY <3>1, <3>2, <2>1 DEF ServerInv, Registry
    <3> QED BY <3>3, <3>4 DEF Registry
  <2>5. ReadingOwn'
    BY <2>1 DEF ReadingOwn, NotReading, Parsing
  <2>6. \A r \in held : r.id \in Nat /\ r.id < nextId
    BY DEF ServerInv, HeldOwn
  <2>7. HeldOwn'
    <3>1. \A r \in held : r.id # nextId /\ r.id < nextId'
      BY <2>6, <1>7
    <3>2. \A r \in held : r.id \in DOMAIN streams' =>
                            r.id \in DOMAIN streams /\ streams'[r.id] = streams[r.id]
      BY <2>1, <3>1
    <3> QED BY <1>1, <2>6, <3>1, <3>2 DEF ServerInv, HeldOwn
  <2>8. AllAccounted'
    <3>1. \A id \in DOMAIN streams : \E r \in held : r.id = id
      BY <1>1 DEF ServerInv, AllAccounted, Parsing
    <3>2. reading'.id = nextId
      BY <2>1 DEF NotReading
    <3> QED BY <1>1, <2>1, <3>1, <3>2 DEF AllAccounted, Parsing
  <2>9. OneAtATime'
    BY <1>1, <2>1 DEF ServerInv, OneAtATime, Handling
  <2> QED BY <1>4, <1>6, <2>3, <2>4, <2>5, <2>7, <2>8, <2>9 DEF ServerInv
<1>9. CASE ~cloned
  <2>1. pc' = AfterBadAccept /\ UNCHANGED <<streams, reading>>
    BY <1>9 DEF Accept
  <2>2. pc' \in {"accept", "failed"}
    BY <2>1 DEF AfterBadAccept
  <2>3. ServerTypes' /\ ReadingOwn'
    BY <1>1, <1>3, <1>7, <2>1, <2>2 DEF ServerInv, ServerTypes, ReadingOwn, Parsing
  <2>4. Registry'
    BY <1>5, <1>7, <2>1 DEF ServerInv, Registry
  <2>5. HeldOwn'
    BY <1>1, <1>7, <2>1 DEF ServerInv, HeldOwn
  <2>6. AllAccounted' /\ OneAtATime'
    BY <1>1, <2>1, <2>2 DEF ServerInv, AllAccounted, OneAtATime, Parsing, Handling
  <2> QED BY <1>4, <1>6, <2>3, <2>4, <2>5, <2>6 DEF ServerInv
<1> QED BY <1>8, <1>9

\* What is left when a connection has been given up.
LEMMA OthersStay ==
    ASSUME ServerInv, NEW id \in DOMAIN streams,
           streams' = Forget(id), conn' = [conn EXCEPT ![streams[id]] = "closed"],
           UNCHANGED <<mode, nextId, backlog, script>>
    PROVE  /\ BacklogWaits' /\ Registry'
           /\ conn' \in [Clients -> {"none", "queued", "open", "closed", "reset"}]
           /\ \A j \in DOMAIN streams' :
                j \in DOMAIN streams /\ j # id /\ streams'[j] = streams[j]
           /\ \A c \in Clients : conn'[c] # "closed" => conn[c] # "closed"
<1>1. /\ BacklogWaits' /\ Registry'
      /\ conn' \in [Clients -> {"none", "queued", "open", "closed", "reset"}]
  BY GivenUp DEF ServerInv
<1>2. \A j \in DOMAIN streams' :
          j \in DOMAIN streams /\ j # id /\ streams'[j] = streams[j]
  BY ForgetFacts
<1>3. \A c \in Clients : conn'[c] # "closed" => conn[c] # "closed"
  BY DEF ServerInv, ServerTypes
<1> QED BY <1>1, <1>2, <1>3

LEMMA ParseFailsKeeps ==
    ASSUME ServerInv, pc \in Parsing, ParseFails,
           UNCHANGED <<mode, nextId, held, script, backlog, got>>
    PROVE  ServerInv'
<1>1. reading.id \in DOMAIN streams /\ streams[reading.id] = Peer
  BY DEF ServerInv, ReadingOwn, Peer
<1>2. /\ streams' = Forget(reading.id) /\ conn' = [conn EXCEPT ![streams[reading.id]] = "closed"]
      /\ reading' = NotReading /\ pc' \in {"accept", "failed"}
  BY <1>1 DEF ParseFails, AfterBadAccept
<1>3. /\ BacklogWaits' /\ Registry'
      /\ conn' \in [Clients -> {"none", "queued", "open", "closed", "reset"}]
      /\ \A j \in DOMAIN streams' :
           j \in DOMAIN streams /\ j # reading.id /\ streams'[j] = streams[j]
      /\ \A c \in Clients : conn'[c] # "closed" => conn[c] # "closed"
  BY <1>1, <1>2, OthersStay
<1>4. ServerTypes'
  BY <1>2, <1>3 DEF ServerInv, ServerTypes, NotReading
<1>5. ReadingOwn'
  BY <1>2 DEF ReadingOwn, Parsing
<1>6. HeldOwn'
  BY <1>3 DEF ServerInv, HeldOwn
<1>7. AllAccounted'
  BY <1>3 DEF ServerInv, AllAccounted
<1>8. OneAtATime'
  BY <1>2 DEF ServerInv, OneAtATime, Parsing, Handling
<1>9. GotOwn'
  BY <1>3 DEF ServerInv, GotOwn
<1> QED BY <1>3, <1>4, <1>5, <1>6, <1>7, <1>8, <1>9 DEF ServerInv

\* Reading on changes the request that is read and where its parser stands.
LEMMA ReadOnKeeps ==
    ASSUME ServerInv, pc \in Parsing, pc' \in {"headers", "body"},
           UNCHANGED <<mode, nextId, streams, held, script, backlog, conn, got>>,
           reading' = [id |-> reading.id, client |-> reading.client, at |-> reading'.at,
                       line |-> script[reading.client][1], length |-> reading'.length,
                       body |-> reading'.body]
    PROVE  ServerInv'
<1>1. reading'.id = reading.id /\ reading'.client = reading.client
      /\ reading'.line = script[reading.client][1]
  OBVIOUS
<1>2. ServerTypes'
  <2>1. reading' = [id |-> reading'.id, client |-> reading'.client, at |-> reading'.at,
                    line |-> reading'.line, length |-> reading'.length, body |-> reading'.body]
    BY <1>1
  <2> QED BY <2>1 DEF ServerInv, ServerTypes, Parsing
<1>3. ReadingOwn'
  BY <1>1 DEF ServerInv, ReadingOwn
<1>4. BacklogWaits' /\ Registry' /\ HeldOwn' /\ GotOwn'
  BY DEF ServerInv, BacklogWaits, Registry, HeldOwn, GotOwn
<1>5. AllAccounted'
  BY <1>1 DEF ServerInv, AllAccounted, Parsing
<1>6. OneAtATime'
  BY DEF ServerInv, OneAtATime, Parsing, Handling
<1> QED BY <1>2, <1>3, <1>4, <1>5, <1>6 DEF ServerInv

LEMMA ReadKeeps ==
    ASSUME ServerInv, ReadRequestLine \/ ReadHeader \/ ReadBody
    PROVE  ServerInv'
<1>1. /\ pc \in Parsing
      /\ UNCHANGED <<mode, nextId, held, script, backlog, got>>
  BY DEF ReadRequestLine, ReadHeader, ReadBody, Parsing, clientVars
<1>2. reading = [id |-> reading.id, client |-> reading.client, at |-> reading.at,
                 line |-> reading.line, length |-> reading.length, body |-> reading.body]
  BY DEF ServerInv, ServerTypes
<1>3. pc # "line" => reading.line = script[reading.client][1]
  BY <1>1 DEF ServerInv, ReadingOwn
<1>4. CASE ParseFails
  BY <1>1, <1>4, ParseFailsKeeps
<1>5. CASE ReadRequestLine /\ ~ParseFails
  <2>1. /\ reading' = [reading EXCEPT !.at = @ + 1, !.line = Item]
        /\ pc' = "headers" /\ UNCHANGED <<streams, conn>> /\ pc = "line"
    BY <1>5 DEF ReadRequestLine
  <2>2. Item = script[reading.client][1]
    BY <2>1, <1>1 DEF Item, Peer, ServerInv, ReadingOwn
  <2>3. reading' = [id |-> reading.id, client |-> reading.client, at |-> reading'.at,
                    line |-> script[reading.client][1], length |-> reading'.length,
                    body |-> reading'.body]
    BY <2>1, <2>2, <1>2
  <2> QED BY <1>1, <2>1, <2>3, ReadOnKeeps
<1>6. CASE ReadHeader
  <2>1. /\ pc' \in {"headers", "body"} /\ UNCHANGED <<streams, conn>> /\ pc = "headers"
        /\ \/ UNCHANGED reading
           \/ reading' = [reading EXCEPT !.at = @ + 1,
                                         !.length = IF Item[1] = "length" THEN Item[2] ELSE @]
    BY <1>6 DEF ReadHeader
  <2>2. reading' = [id |-> reading.id, client |-> reading.client, at |-> reading'.at,
                    line |-> script[reading.client][1], length |-> reading'.length,
                    body |-> reading'.body]
    BY <2>1, <1>2, <1>3
  <2> QED BY <1>1, <2>1, <2>2, ReadOnKeeps
<1>7. CASE ReadBody /\ ~ParseFails
  <2>1. /\ pc' = "body" /\ UNCHANGED <<streams, conn>> /\ pc = "body"
        /\ reading' = [reading EXCEPT !.at = @ + 1, !.body = Append(@, Item)]
    BY <1>7 DEF ReadBody
  <2>2. reading' = [id |-> reading.id, client |-> reading.client, at |-> reading'.at,
                    line |-> script[reading.client][1], length |-> reading'.length,
                    body |-> reading'.body]
    BY <2>1, <1>2, <1>3
  <2> QED BY <1>1, <2>1, <2>2, ReadOnKeeps
<1> QED BY <1>4, <1>5, <1>6, <1>7

LEMMA HandOverKeeps == ASSUME ServerInv, HandOver PROVE ServerInv'
<1> DEFINE new == [id |-> reading.id, line |-> reading.line, body |-> reading.body]
<1>1. /\ pc = "body" /\ held' = held \cup {new} /\ reading' = NotReading
      /\ pc' = IF mode = "chat" THEN "handle" ELSE "user"
      /\ UNCHANGED <<mode, nextId, streams, script, backlog, conn, got>>
  BY DEF HandOver, clientVars
<1>2. /\ reading.id \in DOMAIN streams
      /\ reading.line = script[streams[reading.id]][1]
  BY <1>1 DEF ServerInv, ReadingOwn, Parsing
<1>3. reading.id \in Nat /\ reading.id < nextId
  BY <1>2 DEF ServerInv, Registry
<1>4. ServerTypes'
  BY <1>1 DEF ServerInv, ServerTypes, NotReading, Handling
<1>5. ReadingOwn' /\ BacklogWaits' /\ Registry' /\ GotOwn'
  BY <1>1 DEF ServerInv, ReadingOwn, BacklogWaits, Registry, GotOwn, Parsing
<1>6. HeldOwn'
  <2>1. new.id = reading.id /\ new.line = reading.line
    OBVIOUS
  <2>2. \A r \in held' : r \in held \/ r = new
    BY <1>1
  <2> HIDE DEF new
  <2> QED BY <1>1, <1>2, <1>3, <2>1, <2>2 DEF ServerInv, HeldOwn
<1>7. AllAccounted'
  <2>1. new \in held' /\ new.id = reading.id
    BY <1>1
  <2>2. \A id \in DOMAIN streams : (\E r \in held : r.id = id) \/ id = reading.id
    BY DEF ServerInv, AllAccounted
  <2>3. \A r \in held : r \in held'
    BY <1>1
  <2> HIDE DEF new
  <2> QED BY <1>1, <2>1, <2>2, <2>3 DEF AllAccounted
<1>8. OneAtATime'
  <2>1. mode = "chat" => held = {}
    BY <1>1 DEF ServerInv, OneAtATime, Handling
  <2>2. mode = "chat" => held' = {new} /\ pc' = "handle"
    BY <1>1, <2>1
  <2> HIDE DEF new
  <2> QED BY <1>1, <2>2 DEF OneAtATime, Handling
<1> QED BY <1>4, <1>5, <1>6, <1>7, <1>8 DEF ServerInv

\* A response goes to the client that sent the request, or to nobody.
LEMMA RespondKeeps ==
    ASSUME ServerInv, NEW r \in held, NEW status, NEW written \in BOOLEAN,
           Respond(r, status, written),
           pc \notin Parsing, pc' \in {"user", "accept", "failed"},
           held' = held \/ (held = {r} /\ held' = {}), OneAtATime',
           UNCHANGED <<mode, nextId, reading, script, backlog>>
    PROVE  ServerInv'
<1>1. ReadingOwn'
  BY DEF ReadingOwn, Parsing
<1>2. \A q \in held' : q \in held
  OBVIOUS
<1>3. CASE r.id \notin DOMAIN streams
  <2>1. UNCHANGED <<streams, conn, got>>
    BY <1>3 DEF Respond
  <2>2. ServerTypes' /\ BacklogWaits' /\ Registry' /\ GotOwn'
    BY <2>1 DEF ServerInv, ServerTypes, BacklogWaits, Registry, GotOwn
  <2>3. HeldOwn'
    BY <2>1, <1>2 DEF ServerInv, HeldOwn
  <2>4. AllAccounted'
    <3>1. \A id \in DOMAIN streams : \E q \in held : q.id = id
      BY DEF ServerInv, AllAccounted
    <3>2. \A id \in DOMAIN streams : \E q \in held' : q.id = id
      BY <3>1, <1>3
    <3> QED BY <2>1, <3>2 DEF AllAccounted
  <2> QED BY <1>1, <2>2, <2>3, <2>4 DEF ServerInv
<1>4. CASE r.id \in DOMAIN streams
  <2> DEFINE c == streams[r.id]
  <2>1. /\ streams' = Forget(r.id) /\ conn' = [conn EXCEPT ![c] = "closed"]
        /\ got' = IF written THEN [got EXCEPT ![c] = Append(@, <<status, r.line>>)] ELSE got
    BY <1>4 DEF Respond
  <2>2. /\ BacklogWaits' /\ Registry'
        /\ conn' \in [Clients -> {"none", "queued", "open", "closed", "reset"}]
        /\ \A j \in DOMAIN streams' :
             j \in DOMAIN streams /\ j # r.id /\ streams'[j] = streams[j]
        /\ \A d \in Clients : conn'[d] # "closed" => conn[d] # "closed"
    BY <1>4, <2>1, OthersStay
  <2>3. /\ c \in Clients /\ conn[c] = "open" /\ conn'[c] = "closed"
        /\ r.line = script[c][1] /\ got[c] = <<>>
    <3>1. c \in Clients /\ conn[c] = "open"
      BY <1>4 DEF ServerInv, Registry
    <3>2. conn'[c] = "closed"
      BY <3>1, <2>1 DEF ServerInv, ServerTypes
    <3> QED BY <1>4, <3>1, <3>2 DEF ServerInv, HeldOwn, GotOwn
  <2>4. /\ got' = [d \in Clients |-> got'[d]]
        /\ \A d \in Clients : d # c => got'[d] = got[d]
        /\ got'[c] = <<>> \/ got'[c] = << <<status, script[c][1]>> >>
    <3> DEFINE told == <<status, r.line>>
    <3>1. Append(got[c], told) = <<told>>
      BY <2>3
    <3>2. got = [d \in Clients |-> got[d]]
      BY DEF ServerInv, ServerTypes
    <3>3. CASE ~written
      BY <3>3, <2>1, <2>3, <3>2
    <3>4. CASE written
      <4>1. got' = [got EXCEPT ![c] = <<told>>]
        BY <3>4, <2>1, <3>1
      <4> HIDE DEF c, told
      <4>2. got' = [d \in Clients |-> got'[d]] /\ got'[c] = <<told>>
            /\ \A d \in Clients : d # c => got'[d] = got[d]
        BY <4>1, <2>3, <3>2
      <4> QED BY <4>2, <2>3 DEF told
    <3> QED BY <3>3, <3>4
  <2>5. ServerTypes'
    BY <2>2, <2>4 DEF ServerInv, ServerTypes
  <2>6. HeldOwn'
    BY <2>2, <1>2 DEF ServerInv, HeldOwn
  <2>7. AllAccounted'
    <3>1. \A id \in DOMAIN streams : \E q \in held : q.id = id
      BY DEF ServerInv, AllAccounted
    <3>2. \A id \in DOMAIN streams' : \E q \in held' : q.id = id
      BY <3>1, <2>2
    <3> QED BY <3>2 DEF AllAccounted
  <2>8. GotOwn'
    <3> HIDE DEF c
    <3>1. \A d \in Clients :
            /\ got'[d] # <<>> => \E st : got'[d] = << <<st, script[d][1]>> >>
            /\ conn'[d] # "closed" => got'[d] = <<>>
      BY <2>2, <2>3, <2>4 DEF ServerInv, GotOwn
    <3> QED BY <3>1 DEF GotOwn
  <2> QED BY <1>1, <2>2, <2>5, <2>6, <2>7, <2>8 DEF ServerInv
<1> QED BY <1>3, <1>4

LEMMA ReplyKeeps ==
    ASSUME ServerInv, NEW r \in held, NEW status, NEW written \in BOOLEAN,
           Reply(r, status, written)
    PROVE  ServerInv'
<1>1. /\ pc = "user" /\ pc' \in {"user", "failed"}
      /\ UNCHANGED <<mode, nextId, reading, held, script, backlog>>
  BY DEF Reply, clientVars
<1>2. OneAtATime'
  BY <1>1 DEF ServerInv, OneAtATime, Handling
<1>3. CASE status \notin 100..599
  <2>1. UNCHANGED <<streams, conn, got>>
    BY <1>3 DEF Reply
  <2> QED BY <1>1, <1>2, <2>1 DEF ServerInv, ServerTypes, BacklogWaits, Registry, ReadingOwn,
             HeldOwn, AllAccounted, GotOwn, Parsing
<1>4. CASE status \in 100..599
  <2>1. Respond(r, status, written)
    BY <1>4 DEF Reply
  <2> QED BY <1>1, <1>2, <2>1, RespondKeeps DEF Parsing
<1> QED BY <1>3, <1>4

\* The chat server answers the one request it holds and accepts the next.
LEMMA ChatKeeps ==
    ASSUME ServerInv, pc \in Handling, NEW r \in held, NEW status, NEW written \in BOOLEAN,
           ChatResponds(r, status, written)
    PROVE  ServerInv'
<1>1. /\ Respond(r, status, written) /\ held' = {} /\ pc' = "accept"
      /\ UNCHANGED <<mode, nextId, reading, script, backlog>>
  BY DEF ChatResponds, clientVars
<1>2. held = {r}
  BY DEF ServerInv, OneAtATime
<1>3. OneAtATime'
  BY <1>1 DEF OneAtATime, Handling
<1>4. pc \notin Parsing
  BY DEF Parsing, Handling
<1> QED BY <1>1, <1>2, <1>3, <1>4, RespondKeeps

\* Nothing is left of a process that died.
LEMMA DeathKeeps == ASSUME ServerInv, NoMemory PROVE ServerInv'
<1>1. /\ pc' = "dead" /\ backlog' = <<>> /\ DOMAIN streams' = {} /\ held' = {}
      /\ reading' = NotReading /\ UNCHANGED <<mode, nextId, script, got>>
  BY DEF NoMemory, clientVars
<1>2. /\ conn' \in [Clients -> {"none", "queued", "open", "closed", "reset"}]
      /\ \A c \in Clients : conn'[c] # "closed" => conn[c] # "closed"
  BY DEF NoMemory, ServerInv, ServerTypes
<1>3. ServerTypes'
  BY <1>1, <1>2 DEF ServerInv, ServerTypes, NotReading
<1>4. BacklogWaits' /\ Registry'
  BY <1>1 DEF BacklogWaits, Registry
<1>5. ReadingOwn' /\ HeldOwn' /\ AllAccounted'
  BY <1>1 DEF ReadingOwn, HeldOwn, AllAccounted, Parsing
<1>6. OneAtATime'
  BY <1>1 DEF OneAtATime, Handling
<1>7. GotOwn'
  BY <1>1, <1>2 DEF ServerInv, GotOwn
<1> QED BY <1>3, <1>4, <1>5, <1>6, <1>7 DEF ServerInv

LEMMA HttpKeeps == ASSUME ServerInv, HttpNext PROVE ServerInv'
<1>1. CASE ServerStep
  <2>1. CASE \E ok \in BOOLEAN : Listen(ok)
    BY <2>1, QuietKeeps
  <2>2. CASE \E ok \in BOOLEAN : Accept(ok)
    BY <2>2, AcceptKeeps
  <2>3. CASE ReadRequestLine \/ ReadHeader \/ ReadBody
    BY <2>3, ReadKeeps
  <2>4. CASE HandOver
    BY <2>4, HandOverKeeps
  <2>5. CASE AskModel
    BY <2>5, QuietKeeps
  <2>6. ASSUME NEW written \in BOOLEAN, Handle(written) PROVE ServerInv'
    <3>1. pc \in Handling
      BY <2>6 DEF Handle, Handling
    <3>2. PICK r \in held : \E status \in DirectStatus(r) : ChatResponds(r, status, written)
      BY <2>6 DEF Handle
    <3>3. PICK status : ChatResponds(r, status, written)
      BY <3>2
    <3> QED BY <3>1, <3>3, ChatKeeps
  <2>7. ASSUME NEW written \in BOOLEAN, NEW ok \in BOOLEAN, ModelAnswers(ok, written)
        PROVE  ServerInv'
    <3>1. pc \in Handling
      BY <2>7 DEF ModelAnswers, Handling
    <3>2. PICK r \in held : ChatResponds(r, IF ok THEN 200 ELSE 500, written)
      BY <2>7 DEF ModelAnswers
    <3> QED BY <3>1, <3>2, ChatKeeps
  <2> QED BY <1>1, <2>1, <2>2, <2>3, <2>4, <2>5, <2>6, <2>7, DeathKeeps DEF ServerStep
<1>2. CASE ProgramStep
  <2>1. CASE CallAccept \/ ProgramEnds
    BY <2>1, QuietKeeps
  <2>2. ASSUME NEW r \in held, NEW status \in Statuses, NEW written \in BOOLEAN,
               Reply(r, status, written)
        PROVE  ServerInv'
    BY <2>2, ReplyKeeps
  <2> QED BY <1>2, <2>1, <2>2 DEF ProgramStep
<1>3. CASE AcceptError
  BY <1>3, QuietKeeps
<1>4. CASE ClientStep
  <2>1. PICK c \in Clients : Connect(c) \/ Send(c) \/ HangUp(c)
    BY <1>4 DEF ClientStep
  <2> QED BY <2>1, ClientKeeps
<1> QED BY <1>1, <1>2, <1>3, <1>4 DEF HttpNext

\* Whoever talks or fetches leaves the server alone.
LEMMA ServerElsewhere == ASSUME ServerInv, UNCHANGED httpVars PROVE ServerInv'
BY DEF ServerInv, ServerTypes, BacklogWaits, Registry, ReadingOwn, HeldOwn, AllAccounted,
       OneAtATime, GotOwn, httpVars, serverVars, clientVars

\* Replies reach their clients, for any clients and whatever they send: nobody
\* is told the answer to another's request or told twice, and no connection
\* stays in the registry that nobody can reply to (http_accept, http_reply,
\* ai_chat_handle_request).
THEOREM RepliesReach == Spec => []RepliesReachTheirClients
<1>1. Init => ServerInv
  BY ServerInitInv DEF Init
<1>2. ServerInv /\ [Next]_servicesVars => ServerInv'
  <2> SUFFICES ASSUME ServerInv, [Next]_servicesVars PROVE ServerInv'
    OBVIOUS
  <2>1. CASE Serve(HttpNext)
    BY <2>1, HttpKeeps DEF Serve
  <2>2. CASE UNCHANGED httpVars
    BY <2>2, ServerElsewhere
  <2> QED BY <2>1, <2>2 DEF Next, servicesVars
<1> QED BY <1>1, <1>2, ServerInvMeans, PTL DEF Spec

-----------------------------------------------------------------------------
(* Bodies.                                                                 *)

\* The first empty line is item k, there is none among the first n items, and
\* len is the length that the first n items announce.
NoEmptyLine(items, n) == \A i \in 1..n : items[i] # <<"blank">>
EmptyLineAt(items, k) == items[k] = <<"blank">> /\ NoEmptyLine(items, k - 1)
Announced(items, n, len) ==
    \/ len = 0 /\ \A i \in 1..n : items[i][1] # "length"
    \/ \E i \in 1..n : /\ items[i][1] = "length" /\ items[i][2] = len
                       /\ \A j \in (i + 1)..n : items[j][1] # "length"

\* The body of a request of which the first n items are read: what follows the
\* empty line, or nothing where the client hung up before it.
BodyUpTo(c, n, len, body) ==
    \/ \E k \in 1..n : /\ EmptyLineAt(script[c], k) /\ Announced(script[c], k, len)
                       /\ body = SubSeq(script[c], k + 1, n)
    \/ /\ c \in hungup /\ n = sent[c] /\ NoEmptyLine(script[c], n)
       /\ Announced(script[c], n, len) /\ body = <<>>

\* Clients send what they set out to send.
ClientsSend ==
    /\ script \in [Clients -> Scripts \cup {<<>>}]
    /\ sent \in [Clients -> Nat]
    /\ \A c \in Clients : sent[c] <= Len(script[c]) /\ (conn[c] = "none" => sent[c] = 0)

\* What is known of the request being read.
ReadingBody ==
    pc \in Parsing =>
        LET c == reading.client
            n == reading.at
        IN  /\ n \in Nat /\ n <= sent[c]
            /\ pc \in {"line", "headers"} =>
                /\ reading.body = <<>>
                /\ NoEmptyLine(script[c], n) /\ Announced(script[c], n, reading.length)
            /\ pc = "body" => BodyUpTo(c, n, reading.length, reading.body)

HeldWhole ==
    \A r \in held : r.id \in DOMAIN streams =>
        \E n \in Nat : /\ n <= sent[streams[r.id]]
                       /\ BodyUpTo(streams[r.id], n, Len(r.body), r.body)

BodyInv == ClientsSend /\ ReadingBody /\ HeldWhole

\* A stretch of a sequence: where it ends before the sequence does, what the
\* sequence holds behind is of no account, and the next item makes it longer.
LEMMA StretchOfStart ==
    ASSUME NEW S, NEW items \in Seq(S), NEW n \in Nat, n <= Len(items),
           NEW k \in Nat, NEW m \in Nat, m <= n
    PROVE  SubSeq(SubSeq(items, 1, n), k + 1, m) = SubSeq(items, k + 1, m)
<1> DEFINE start == SubSeq(items, 1, n)
<1>1. \A i \in 1..n : items[i] \in S
  OBVIOUS
<1>2. start \in Seq(S) /\ Len(start) = n /\ \A i \in 1..n : start[i] = items[i]
  BY <1>1, SubSeqProperties
<1>3. \A i \in (k + 1)..m : i \in 1..n /\ start[i] \in S /\ items[i] \in S
  BY <1>1, <1>2
<1> HIDE DEF start
<1>4. /\ SubSeq(start, k + 1, m) \in Seq(S)
      /\ Len(SubSeq(start, k + 1, m)) = IF k + 1 <= m THEN m - (k + 1) + 1 ELSE 0
      /\ \A i \in 1..(m - (k + 1) + 1) : SubSeq(start, k + 1, m)[i] = start[k + 1 + i - 1]
  BY <1>3, SubSeqProperties
<1>5. /\ SubSeq(items, k + 1, m) \in Seq(S)
      /\ Len(SubSeq(items, k + 1, m)) = IF k + 1 <= m THEN m - (k + 1) + 1 ELSE 0
      /\ \A i \in 1..(m - (k + 1) + 1) : SubSeq(items, k + 1, m)[i] = items[k + 1 + i - 1]
  BY <1>3, SubSeqProperties
<1>6. \A i \in 1..Len(SubSeq(start, k + 1, m)) :
        SubSeq(start, k + 1, m)[i] = SubSeq(items, k + 1, m)[i]
  <2> SUFFICES ASSUME NEW i \in 1..Len(SubSeq(start, k + 1, m))
               PROVE  SubSeq(start, k + 1, m)[i] = SubSeq(items, k + 1, m)[i]
    OBVIOUS
  <2>1. i \in 1..(m - (k + 1) + 1) /\ k + 1 + i - 1 \in 1..n
    BY <1>4
  <2> QED BY <2>1, <1>2, <1>4, <1>5
<1>7. SubSeq(start, k + 1, m) = SubSeq(items, k + 1, m)
  BY <1>4, <1>5, <1>6, SeqEqual
<1> QED BY <1>7 DEF start

LEMMA StretchGrows ==
    ASSUME NEW S, NEW items \in Seq(S), NEW k \in Nat, NEW n \in Nat, k <= n, n < Len(items)
    PROVE  Append(SubSeq(items, k + 1, n), items[n + 1]) = SubSeq(items, k + 1, n + 1)
<1> DEFINE old == SubSeq(items, k + 1, n)
           new == SubSeq(items, k + 1, n + 1)
<1>1. \A i \in (k + 1)..(n + 1) : items[i] \in S
  OBVIOUS
<1>2. /\ old \in Seq(S) /\ Len(old) = n - k
      /\ \A i \in 1..(n - (k + 1) + 1) : old[i] = items[k + 1 + i - 1]
  BY <1>1, SubSeqProperties
<1>3. /\ new \in Seq(S) /\ Len(new) = n - k + 1
      /\ \A i \in 1..(n + 1 - (k + 1) + 1) : new[i] = items[k + 1 + i - 1]
  BY <1>1, SubSeqProperties
<1>4. items[n + 1] \in S
  OBVIOUS
<1> HIDE DEF old, new
<1>5. /\ Append(old, items[n + 1]) \in Seq(S) /\ Len(Append(old, items[n + 1])) = n - k + 1
      /\ \A i \in 1..Len(old) : Append(old, items[n + 1])[i] = old[i]
      /\ Append(old, items[n + 1])[n - k + 1] = items[n + 1]
  BY <1>2, <1>4
<1>6. \A i \in 1..(n - k + 1) : Append(old, items[n + 1])[i] = new[i]
  <2> SUFFICES ASSUME NEW i \in 1..(n - k + 1)
               PROVE  Append(old, items[n + 1])[i] = new[i]
    OBVIOUS
  <2>1. CASE i = n - k + 1
    BY <2>1, <1>3, <1>5
  <2>2. CASE i # n - k + 1
    <3> DEFINE m == Len(old)
    <3>0. m = n - k
      BY <1>2
    <3> HIDE DEF m
    <3>1. i \in 1..m /\ i \in 1..(n - (k + 1) + 1) /\ i \in 1..(n + 1 - (k + 1) + 1)
      BY <2>2, <3>0
    <3>2. Append(old, items[n + 1])[i] = old[i]
      BY <3>1, <1>5 DEF m
    <3>3. old[i] = items[k + 1 + i - 1]
      BY <3>1, <1>2
    <3>4. new[i] = items[k + 1 + i - 1]
      BY <3>1, <1>3
    <3> QED BY <3>2, <3>3, <3>4
  <2> QED BY <2>1, <2>2
<1>7. Append(old, items[n + 1]) = new
  BY <1>3, <1>5, <1>6, SeqEqual
<1> QED BY <1>7 DEF old, new

\* What the request is that a client has sent so far, once its head is known.
LEMMA RequestOfHead ==
    ASSUME NEW S, NEW items \in Seq(S), NEW n \in Nat, n <= Len(items), NEW len,
           NEW k \in Nat, k <= n, Announced(items, k, len),
           (k # 0 /\ EmptyLineAt(items, k)) \/ (k = n /\ NoEmptyLine(items, n))
    PROVE  LinesBefore(SubSeq(items, 1, n)) = k /\ LengthOf(SubSeq(items, 1, n)) = len
<1> DEFINE start == SubSeq(items, 1, n)
<1>1. \A i \in 1..n : items[i] \in S
  OBVIOUS
<1>2. start \in Seq(S) /\ Len(start) = n /\ \A i \in 1..n : start[i] = items[i]
  BY <1>1, SubSeqProperties
<1> HIDE DEF start
<1>3. DOMAIN start = 1..n
  BY <1>2
<1>4. LinesBefore(start) = k
  <2> DEFINE blanks == {i \in DOMAIN start : start[i] = <<"blank">>}
  <2>1. CASE k # 0 /\ EmptyLineAt(items, k)
    <3>1. k \in blanks /\ \A j \in blanks : k <= j
      BY <2>1, <1>2, <1>3 DEF EmptyLineAt, NoEmptyLine
    <3>2. \A i \in blanks : (\A j \in blanks : i <= j) => i = k
      BY <3>1, <1>3
    <3> QED BY <3>1, <3>2 DEF LinesBefore
  <2>2. CASE k = n /\ NoEmptyLine(items, n)
    <3>1. blanks = {}
      BY <2>2, <1>2, <1>3 DEF NoEmptyLine
    <3> QED BY <3>1, <2>2, <1>2 DEF LinesBefore
  <2> QED BY <2>1, <2>2
<1>5. LengthOf(start) = len
  <2> DEFINE given == {i \in 1..LinesBefore(start) : start[i][1] = "length"}
  <2>1. \A i \in 1..k : start[i] = items[i]
    BY <1>2
  <2>2. given = {i \in 1..k : items[i][1] = "length"}
    BY <1>4, <2>1
  <2>3. CASE len = 0 /\ \A i \in 1..k : items[i][1] # "length"
    <3>1. given = {}
      BY <2>2, <2>3
    <3> QED BY <3>1, <2>3 DEF LengthOf
  <2>4. ASSUME NEW i \in 1..k, items[i][1] = "length", items[i][2] = len,
               \A j \in (i + 1)..k : items[j][1] # "length"
        PROVE  LengthOf(start) = len
    <3>1. i \in given /\ \A j \in given : j <= i
      BY <2>2, <2>4
    <3>2. \A m \in given : (\A j \in given : j <= m) => m = i
      BY <3>1, <2>2
    <3>3. start[CHOOSE m \in given : \A j \in given : j <= m][2] = len
      BY <3>1, <3>2, <2>1, <2>4
    <3> QED BY <3>1, <3>3 DEF LengthOf
  <2> QED BY <2>3, <2>4 DEF Announced
<1> QED BY <1>4, <1>5 DEF start

\* Hence what holds of the requests handed over is what was to be shown.
LEMMA ScriptsAreSeqs ==
    ASSUME ClientsSend, NEW c \in Clients PROVE script[c] \in Seq(Range(script[c]))
<1>1. script[c] \in Scripts \cup {<<>>}
  BY DEF ClientsSend
<1>2. CASE script[c] = <<>>
  <2>1. <<>> \in Seq(Range(<<>>))
    OBVIOUS
  <2> QED BY <1>2, <2>1
<1> QED BY <1>1, <1>2, ScriptsAreSequences

LEMMA BodyInvMeans == ServerInv /\ BodyInv => BodyIsWhole
<1> SUFFICES ASSUME ServerInv, BodyInv, NEW r \in held, r.id \in DOMAIN streams
             PROVE  LET c == streams[r.id]
                        items == SubSeq(script[c], 1, sent[c])
                    IN  /\ Len(r.body) = LengthOf(items)
                        /\ r.body = SubSeq(items, LinesBefore(items) + 1,
                                           LinesBefore(items) + LengthOf(items))
  BY DEF BodyIsWhole
<1> DEFINE c == streams[r.id]
           all == script[c]
           items == SubSeq(all, 1, sent[c])
           len == Len(r.body)
<1>1. c \in Clients
  BY DEF ServerInv, Registry
<1>2. all \in Seq(Range(all)) /\ sent[c] \in Nat /\ sent[c] <= Len(all)
  BY <1>1, ScriptsAreSeqs DEF BodyInv, ClientsSend
<1>3. PICK n \in Nat : n <= sent[c] /\ BodyUpTo(c, n, len, r.body)
  BY DEF BodyInv, HeldWhole
<1> HIDE DEF c
<1>4. ASSUME NEW k \in 1..n, EmptyLineAt(all, k), Announced(all, k, len),
             r.body = SubSeq(all, k + 1, n)
      PROVE  /\ len = LengthOf(items)
             /\ r.body = SubSeq(items, LinesBefore(items) + 1, LinesBefore(items) + LengthOf(items))
  <2>1. LinesBefore(items) = k /\ LengthOf(items) = len
    <3>1. k \in Nat /\ k <= sent[c] /\ k # 0
      BY <1>2, <1>3
    <3> HIDE DEF all, len
    <3> QED BY <3>1, <1>2, <1>4, RequestOfHead
  <2>2. len = n - k
    <3>1. \A i \in (k + 1)..n : all[i] \in Range(all)
      BY <1>2, <1>3 DEF Range
    <3>2. Len(SubSeq(all, k + 1, n)) = IF k + 1 <= n THEN n - (k + 1) + 1 ELSE 0
      BY <3>1, SubSeqProperties
    <3> QED BY <3>2, <1>4
  <2>3. SubSeq(items, k + 1, n) = SubSeq(all, k + 1, n)
    <3> HIDE DEF all
    <3> QED BY <1>2, <1>3, StretchOfStart
  <2> HIDE DEF all, items, len
  <2>4. LinesBefore(items) + LengthOf(items) = n
    BY <2>1, <2>2
  <2> QED BY <2>1, <2>3, <2>4, <1>4
<1>5. ASSUME n = sent[c], NoEmptyLine(all, n), Announced(all, n, len), r.body = <<>>
      PROVE  /\ len = LengthOf(items)
             /\ r.body = SubSeq(items, LinesBefore(items) + 1, LinesBefore(items) + LengthOf(items))
  <2>1. LinesBefore(items) = n /\ LengthOf(items) = len
    <3> HIDE DEF all, len
    <3> QED BY <1>2, <1>5, RequestOfHead
  <2>2. len = 0
    BY <1>5
  <2> HIDE DEF all, items, len
  <2>3. SubSeq(items, n + 1, n) = <<>>
    BY SubSeqEmpty
  <2> QED BY <2>1, <2>2, <2>3, <1>5
<1> QED BY <1>3, <1>4, <1>5 DEF BodyUpTo, c

LEMMA BodyInit == HttpInit => BodyInv
<1> SUFFICES ASSUME HttpInit PROVE BodyInv
  OBVIOUS
<1>1. ClientsSend
  BY DEF HttpInit, ClientsSend
<1>2. ReadingBody
  BY DEF HttpInit, ReadingBody, Parsing
<1>3. HeldWhole
  BY DEF HttpInit, HeldWhole
<1> QED BY <1>1, <1>2, <1>3 DEF BodyInv

\* A client that has been accepted sends on, or hangs up and sends no more.
GoesOn(c) ==
    /\ script'[c] = script[c] /\ sent[c] <= sent'[c]
    /\ c \in hungup => sent'[c] = sent[c] /\ c \in hungup'

LEMMA BodyStays ==
    ASSUME NEW c, GoesOn(c), NEW n, NEW len, NEW body, BodyUpTo(c, n, len, body)
    PROVE  BodyUpTo(c, n, len, body)'
BY DEF GoesOn, BodyUpTo

\* What holds of the request that is read and of those that are held goes on to
\* hold while no other is taken up.
LEMMA RequestsStay ==
    ASSUME ServerInv, BodyInv, ClientsSend',
           \A c \in Clients : conn[c] # "none" => GoesOn(c),
           pc' \in Parsing => UNCHANGED <<pc, reading>>,
           \A r \in held' : r \in held /\ (r.id \in DOMAIN streams' =>
                            r.id \in DOMAIN streams /\ streams'[r.id] = streams[r.id])
    PROVE  BodyInv'
<1>1. ReadingBody'
  <2> SUFFICES ASSUME pc' \in Parsing PROVE ReadingBody'
    BY DEF ReadingBody
  <2>1. UNCHANGED <<pc, reading>> /\ pc \in Parsing
    OBVIOUS
  <2> DEFINE c == reading.client
             n == reading.at
  <2>2. c \in Clients /\ conn[c] # "none"
    BY <2>1 DEF ServerInv, ReadingOwn, Registry
  <2>3. GoesOn(c) /\ sent[c] \in Nat /\ sent'[c] \in Nat
    BY <2>2 DEF BodyInv, ClientsSend
  <2>4. n \in Nat /\ n <= sent[c] /\ (pc = "body" => BodyUpTo(c, n, reading.length, reading.body))
    BY <2>1 DEF BodyInv, ReadingBody
  <2>5. pc = "body" => BodyUpTo(c, n, reading.length, reading.body)'
    <3> SUFFICES ASSUME pc = "body" PROVE BodyUpTo(c, n, reading.length, reading.body)'
      OBVIOUS
    <3>1. BodyUpTo(c, n, reading.length, reading.body)
      BY <2>4
    <3>2. script'[c] = script[c] /\ (c \in hungup => sent'[c] = sent[c] /\ c \in hungup')
      BY <2>3 DEF GoesOn
    <3> QED BY <2>1, <3>1, <3>2 DEF BodyUpTo
  <2>6. n \in Nat /\ n <= sent'[c] /\ script'[c] = script[c]
    BY <2>3, <2>4 DEF GoesOn
  <2> QED BY <2>1, <2>5, <2>6 DEF BodyInv, ReadingBody
<1>2. HeldWhole'
  <2> SUFFICES ASSUME NEW r \in held', r.id \in DOMAIN streams'
               PROVE  \E n \in Nat : /\ n <= sent'[streams'[r.id]]
                                     /\ BodyUpTo(streams[r.id], n, Len(r.body), r.body)'
    BY DEF HeldWhole
  <2>1. r \in held /\ r.id \in DOMAIN streams /\ streams'[r.id] = streams[r.id]
    OBVIOUS
  <2> DEFINE c == streams[r.id]
  <2>2. c \in Clients /\ conn[c] # "none"
    BY <2>1 DEF ServerInv, Registry
  <2>3. GoesOn(c) /\ sent[c] \in Nat /\ sent'[c] \in Nat
    BY <2>2 DEF BodyInv, ClientsSend
  <2>4. PICK n \in Nat : n <= sent[c] /\ BodyUpTo(c, n, Len(r.body), r.body)
    BY <2>1 DEF BodyInv, HeldWhole
  <2>5. n <= sent'[c]
    BY <2>3, <2>4 DEF GoesOn
  <2>6. BodyUpTo(c, n, Len(r.body), r.body)'
    <3>1. script'[c] = script[c] /\ (c \in hungup => sent'[c] = sent[c] /\ c \in hungup')
      BY <2>3 DEF GoesOn
    <3> QED BY <2>1, <2>4, <3>1 DEF BodyUpTo
  <2> QED BY <2>1, <2>5, <2>6
<1> QED BY <1>1, <1>2 DEF BodyInv

\* A new client sends whatever it likes, and is nobody's whose request is known.
LEMMA ClientBody ==
    ASSUME ServerInv, BodyInv, NEW c \in Clients, Connect(c) \/ Send(c) \/ HangUp(c)
    PROVE  BodyInv'
<1>1. UNCHANGED <<pc, streams, reading, held>>
  BY DEF Connect, Send, HangUp, serverVars
<1>2. CASE Connect(c)
  <2>1. conn[c] = "none" /\ conn' = [conn EXCEPT ![c] = "queued"] /\ UNCHANGED <<sent, hungup>>
    BY <1>2 DEF Connect
  <2>2. PICK s \in Scripts : script' = [script EXCEPT ![c] = s]
    BY <1>2 DEF Connect
  <2>3. \A d \in Clients : d # c => script'[d] = script[d] /\ conn'[d] = conn[d]
    BY <2>1, <2>2 DEF BodyInv, ClientsSend, ServerInv, ServerTypes
  <2>4. script' \in [Clients -> Scripts \cup {<<>>}] /\ script'[c] = s /\ conn'[c] = "queued"
    BY <2>1, <2>2 DEF BodyInv, ClientsSend, ServerInv, ServerTypes
  <2>5. sent[c] = 0 /\ Len(s) \in Nat
    BY <2>1, ScriptsAreSequences DEF BodyInv, ClientsSend
  <2>6. ClientsSend'
    BY <2>1, <2>3, <2>4, <2>5 DEF BodyInv, ClientsSend
  <2>7. \A d \in Clients : conn[d] # "none" => GoesOn(d)
    <3>1. \A d \in Clients : sent[d] \in Nat
      BY DEF BodyInv, ClientsSend
    <3> QED BY <2>1, <2>3, <3>1 DEF GoesOn
  <2> QED BY <1>1, <2>6, <2>7, RequestsStay
<1>3. CASE Send(c) \/ HangUp(c)
  <2>1. /\ UNCHANGED <<script, conn>> /\ conn[c] # "none" /\ c \notin hungup
        /\ \/ /\ sent[c] < Len(script[c]) /\ sent' = [sent EXCEPT ![c] = @ + 1]
              /\ hungup' = hungup
           \/ hungup' = hungup \cup {c} /\ sent' = sent
    BY <1>3 DEF Send, HangUp
  <2>2. ClientsSend /\ \A d \in Clients : sent[d] \in Nat
    BY DEF BodyInv, ClientsSend
  <2>3. /\ sent' \in [Clients -> Nat] /\ \A d \in Clients : d # c => sent'[d] = sent[d]
        /\ sent[c] <= sent'[c] /\ sent'[c] <= Len(script[c])
    <3>1. CASE sent' = sent
      BY <2>2, <3>1 DEF ClientsSend
    <3>2. CASE sent[c] < Len(script[c]) /\ sent' = [sent EXCEPT ![c] = @ + 1]
      <4>1. sent'[c] = sent[c] + 1 /\ \A d \in Clients : d # c => sent'[d] = sent[d]
        BY <2>2, <3>2 DEF ClientsSend
      <4>2. Len(script[c]) \in Nat
        BY <2>2, ScriptsAreSeqs
      <4>3. sent' \in [Clients -> Nat]
        BY <2>2, <3>2 DEF ClientsSend
      <4> QED BY <2>2, <3>2, <4>1, <4>2, <4>3
    <3> QED BY <2>1, <3>1, <3>2
  <2>4. ClientsSend'
    BY <2>1, <2>2, <2>3 DEF ClientsSend
  <2>5. \A d \in Clients : conn[d] # "none" => GoesOn(d)
    BY <2>1, <2>2, <2>3 DEF GoesOn
  <2> QED BY <1>1, <2>4, <2>5, RequestsStay
<1> QED BY <1>2, <1>3

\* Every other step leaves to the clients what they send.
LEMMA ClientsStay ==
    ASSUME ServerInv, BodyInv, UNCHANGED <<script, sent, hungup>>,
           \A c \in Clients : conn'[c] = "none" => conn[c] = "none"
    PROVE  ClientsSend' /\ \A c \in Clients : GoesOn(c)
<1>1. ClientsSend'
  BY DEF BodyInv, ClientsSend
<1>2. \A c \in Clients : sent[c] <= sent[c]
  BY DEF BodyInv, ClientsSend
<1> QED BY <1>1, <1>2 DEF GoesOn

LEMMA QuietBody ==
    ASSUME ServerInv, BodyInv,
           CallAccept \/ ProgramEnds \/ AcceptError \/ AskModel \/ \E ok \in BOOLEAN : Listen(ok)
    PROVE  BodyInv'
<1>1. UNCHANGED <<streams, reading, held, script, sent, hungup, conn>>
  BY DEF CallAccept, ProgramEnds, AcceptError, AskModel, Listen, clientVars
<1>2. pc' \notin Parsing
  BY DEF CallAccept, ProgramEnds, AcceptError, AskModel, Listen, AfterBadAccept, Parsing
<1>3. ClientsSend' /\ \A c \in Clients : GoesOn(c)
  BY <1>1, ClientsStay
<1> QED BY <1>1, <1>2, <1>3, RequestsStay

\* A request is taken up under a new id with nothing of it read.
LEMMA AcceptBody ==
    ASSUME ServerInv, BodyInv, NEW cloned \in BOOLEAN, Accept(cloned)
    PROVE  BodyInv'
<1> DEFINE c == Head(backlog)
<1>1. /\ backlog # <<>>
      /\ conn' = [conn EXCEPT ![c] = IF cloned THEN "open" ELSE "closed"]
      /\ UNCHANGED <<held, script, sent, hungup>>
  BY DEF Accept, clientVars
<1>2. c \in Clients
  BY <1>1 DEF ServerInv, BacklogWaits
<1>3. \A d \in Clients : conn'[d] = "none" => conn[d] = "none"
  BY <1>1, <1>2 DEF ServerInv, ServerTypes
<1>4. ClientsSend' /\ \A d \in Clients : GoesOn(d)
  BY <1>1, <1>3, ClientsStay
<1>5. CASE cloned
  <2>1. /\ DOMAIN streams' = DOMAIN streams \cup {nextId} /\ streams'[nextId] = c
        /\ \A id \in DOMAIN streams : id # nextId => streams'[id] = streams[id]
        /\ reading' = [NotReading EXCEPT !.id = nextId, !.client = c] /\ pc' = "line"
    BY <1>5 DEF Accept
  <2>2. \A r \in held : r.id # nextId
    BY DEF ServerInv, HeldOwn, ServerTypes
  <2>3. HeldWhole'
    <3> SUFFICES ASSUME NEW r \in held', r.id \in DOMAIN streams'
                 PROVE  \E n \in Nat : /\ n <= sent'[streams'[r.id]]
                                       /\ BodyUpTo(streams[r.id], n, Len(r.body), r.body)'
      BY DEF HeldWhole
    <3>1. r \in held /\ r.id \in DOMAIN streams /\ streams'[r.id] = streams[r.id]
      BY <1>1, <2>1, <2>2
    <3>2. PICK n \in Nat : n <= sent[streams[r.id]]
                           /\ BodyUpTo(streams[r.id], n, Len(r.body), r.body)
      BY <3>1 DEF BodyInv, HeldWhole
    <3>3. BodyUpTo(streams[r.id], n, Len(r.body), r.body)'
      BY <1>1, <3>1, <3>2 DEF BodyUpTo
    <3> QED BY <1>1, <3>1, <3>2, <3>3
  <2>4. ReadingBody'
    <3> HIDE DEF c
    <3>1. reading'.client = c /\ reading'.at = 0 /\ reading'.length = 0 /\ reading'.body = <<>>
      BY <2>1 DEF NotReading
    <3>2. sent'[c] \in Nat
      BY <1>2, <1>4 DEF ClientsSend
    <3>3. NoEmptyLine(script'[c], 0) /\ Announced(script'[c], 0, 0)
      BY DEF NoEmptyLine, Announced
    <3> QED BY <2>1, <3>1, <3>2, <3>3 DEF ReadingBody, NoEmptyLine, Announced
  <2> QED BY <1>4, <2>3, <2>4 DEF BodyInv
<1>6. CASE ~cloned
  <2>1. UNCHANGED streams /\ pc' \notin Parsing
    BY <1>6 DEF Accept, AfterBadAccept, Parsing
  <2> QED BY <1>1, <1>4, <2>1, RequestsStay
<1> QED BY <1>5, <1>6

LEMMA DeathBody == ASSUME ServerInv, BodyInv, NoMemory PROVE BodyInv'
<1>1. /\ UNCHANGED <<script, sent, hungup>> /\ pc' \notin Parsing /\ held' = {}
      /\ \A c \in Clients : conn'[c] = "none" => conn[c] = "none"
  BY DEF NoMemory, clientVars, Parsing
<1>2. ClientsSend' /\ \A c \in Clients : GoesOn(c)
  BY <1>1, ClientsStay
<1> QED BY <1>1, <1>2, RequestsStay

\* A connection that is given up, and one that is answered, leave the others'
\* requests alone.
LEMMA GivenUpBody ==
    ASSUME ServerInv, BodyInv, UNCHANGED clientVars, pc' \notin Parsing,
           \A r \in held' : r \in held,
           UNCHANGED <<streams, conn>>
             \/ \E id \in DOMAIN streams : /\ streams' = Forget(id)
                                           /\ conn' = [conn EXCEPT ![streams[id]] = "closed"]
    PROVE  BodyInv'
<1>1. UNCHANGED <<script, sent, hungup>>
  BY DEF clientVars
<1>2. \A c \in Clients : conn'[c] = "none" => conn[c] = "none"
  <2>1. ASSUME NEW id \in DOMAIN streams, conn' = [conn EXCEPT ![streams[id]] = "closed"]
        PROVE  \A c \in Clients : conn'[c] = "none" => conn[c] = "none"
    BY <2>1 DEF ServerInv, ServerTypes
  <2> QED BY <2>1
<1>3. ClientsSend' /\ \A c \in Clients : GoesOn(c)
  BY <1>1, <1>2, ClientsStay
<1>4. \A j \in DOMAIN streams' : j \in DOMAIN streams /\ streams'[j] = streams[j]
  BY ForgetFacts
<1> QED BY <1>3, <1>4, RequestsStay

\* The last length counts.
LEMMA AnnouncedGrows ==
    ASSUME NEW items, NEW n \in Nat, NEW len, Announced(items, n, len)
    PROVE  Announced(items, n + 1, IF items[n + 1][1] = "length" THEN items[n + 1][2] ELSE len)
<1>1. CASE items[n + 1][1] = "length"
  <2>1. n + 1 \in 1..(n + 1) /\ \A j \in (n + 1 + 1)..(n + 1) : items[j][1] # "length"
    OBVIOUS
  <2> QED BY <1>1, <2>1 DEF Announced
<1>2. CASE items[n + 1][1] # "length"
  <2>1. \A i \in 1..(n + 1) : i \in 1..n \/ i = n + 1
    OBVIOUS
  <2>2. CASE len = 0 /\ \A i \in 1..n : items[i][1] # "length"
    BY <1>2, <2>1, <2>2 DEF Announced
  <2>3. ASSUME NEW i \in 1..n, items[i][1] = "length", items[i][2] = len,
               \A j \in (i + 1)..n : items[j][1] # "length"
        PROVE  Announced(items, n + 1, len)
    <3>1. i \in 1..(n + 1) /\ \A j \in (i + 1)..(n + 1) : j \in (i + 1)..n \/ j = n + 1
      OBVIOUS
    <3>2. \A j \in (i + 1)..(n + 1) : items[j][1] # "length"
      BY <3>1, <2>3, <1>2
    <3> QED BY <2>3, <3>1, <3>2 DEF Announced
  <2> QED BY <1>2, <2>2, <2>3 DEF Announced
<1> QED BY <1>1, <1>2

LEMMA EmptyLineIsNext ==
    ASSUME NEW items, NEW n \in Nat, items[n + 1] = <<"blank">>, NoEmptyLine(items, n)
    PROVE  EmptyLineAt(items, n + 1)
<1>1. n + 1 - 1 = n
  OBVIOUS
<1> QED BY <1>1 DEF EmptyLineAt

\* What holds at the place the parser goes on to.
LEMMA ReadOnBody ==
    ASSUME ServerInv, BodyInv, UNCHANGED clientVars, UNCHANGED <<streams, held, conn>>,
           pc \in Parsing, pc' \in {"headers", "body"}, reading'.client = reading.client,
           reading'.at \in Nat, reading'.at <= sent[reading.client],
           pc' = "headers" => /\ reading'.body = <<>>
                              /\ NoEmptyLine(script[reading.client], reading'.at)
                              /\ Announced(script[reading.client], reading'.at, reading'.length),
           pc' = "body" =>
               BodyUpTo(reading.client, reading'.at, reading'.length, reading'.body)
    PROVE  BodyInv'
<1>1. UNCHANGED <<script, sent, hungup>>
  BY DEF clientVars
<1>2. ClientsSend'
  BY <1>1, ClientsStay
<1>3. HeldWhole'
  BY <1>1 DEF BodyInv, HeldWhole, BodyUpTo
<1> DEFINE c == reading.client
<1>4. pc' = "body" => BodyUpTo(reading.client, reading.at, reading.length, reading.body)'
  BY <1>1 DEF BodyUpTo
<1>5. ReadingBody'
  BY <1>1, <1>4 DEF ReadingBody
<1> QED BY <1>2, <1>3, <1>5 DEF BodyInv

LEMMA ReadBodyKeeps ==
    ASSUME ServerInv, BodyInv, ReadRequestLine \/ ReadHeader \/ ReadBody
    PROVE  BodyInv'
<1> DEFINE c == reading.client
           n == reading.at
           items == script[c]
<1>1. pc \in Parsing /\ UNCHANGED clientVars /\ UNCHANGED held
  BY DEF ReadRequestLine, ReadHeader, ReadBody, Parsing
<1>2. /\ reading.id \in DOMAIN streams /\ streams[reading.id] = c /\ c \in Clients
      /\ reading = [id |-> reading.id, client |-> c, at |-> n,
                    line |-> reading.line, length |-> reading.length, body |-> reading.body]
  BY <1>1 DEF ServerInv, ReadingOwn, Registry, ServerTypes
<1>3. /\ n \in Nat /\ n <= sent[c] /\ sent[c] \in Nat /\ sent[c] <= Len(items)
      /\ items \in Seq(Range(items))
  BY <1>1, <1>2, ScriptsAreSeqs DEF BodyInv, ReadingBody, ClientsSend
<1>4. /\ pc \in {"line", "headers"} => /\ reading.body = <<>> /\ NoEmptyLine(items, n)
                                       /\ Announced(items, n, reading.length)
      /\ pc = "body" => BodyUpTo(c, n, reading.length, reading.body)
  BY <1>1 DEF BodyInv, ReadingBody
<1>5. Peer = c /\ Item = items[n + 1] /\ (Arrived <=> n < sent[c])
  BY DEF Peer, Item, Arrived
<1>6. Arrived => n + 1 \in Nat /\ n + 1 <= sent[c]
  BY <1>3, <1>5
<1>7. AtEof => c \in hungup /\ n = sent[c]
  BY <1>3, <1>5 DEF AtEof
<1>8. Arrived /\ Item # <<"blank">> /\ NoEmptyLine(items, n) => NoEmptyLine(items, n + 1)
  <2>1. \A i \in 1..(n + 1) : i \in 1..n \/ i = n + 1
    BY <1>3
  <2> QED BY <2>1, <1>5 DEF NoEmptyLine
<1>9. CASE ParseFails
  <2>1. pc' \notin Parsing
    BY <1>9 DEF ParseFails, AfterBadAccept, Parsing
  <2>2. streams' = Forget(reading.id) /\ conn' = [conn EXCEPT ![streams[reading.id]] = "closed"]
    BY <1>2, <1>5, <1>9 DEF ParseFails
  <2> QED BY <1>1, <1>2, <2>1, <2>2, GivenUpBody
<1>10. CASE ReadRequestLine /\ ~ParseFails
  <2>1. /\ pc = "line" /\ Arrived /\ Request(Item) /\ pc' = "headers"
        /\ reading' = [reading EXCEPT !.at = @ + 1, !.line = Item] /\ UNCHANGED <<streams, conn>>
    BY <1>10 DEF ReadRequestLine
  <2>2. Item # <<"blank">> /\ items[n + 1][1] # "length"
    BY <2>1, <1>5 DEF Request
  <2>3. /\ reading'.client = c /\ reading'.at = n + 1 /\ reading'.length = reading.length
        /\ reading'.body = <<>>
    BY <2>1, <1>2, <1>4
  <2>4. Announced(items, n + 1, reading.length)
    BY <2>1, <2>2, <1>3, <1>4, AnnouncedGrows
  <2> QED BY <1>1, <1>4, <1>6, <1>8, <2>1, <2>2, <2>3, <2>4, ReadOnBody
<1>11. CASE ReadHeader /\ AtEof /\ UNCHANGED reading
  <2>1. pc = "headers" /\ pc' = "body" /\ UNCHANGED <<streams, conn>>
    <3>1. ~Arrived
      BY <1>11 DEF AtEof
    <3> QED BY <1>11, <3>1 DEF ReadHeader
  <2>2. BodyUpTo(c, n, reading.length, reading.body)
    BY <2>1, <1>4, <1>7, <1>11 DEF BodyUpTo
  <2> QED BY <1>1, <1>3, <1>11, <2>1, <2>2, ReadOnBody
<1>12. CASE ReadHeader /\ Arrived
  <2> DEFINE len == IF Item[1] = "length" THEN Item[2] ELSE reading.length
  <2>1. /\ pc = "headers" /\ pc' = (IF Item = <<"blank">> THEN "body" ELSE "headers")
        /\ reading' = [reading EXCEPT !.at = @ + 1, !.length = len] /\ UNCHANGED <<streams, conn>>
    BY <1>12 DEF ReadHeader, AtEof
  <2>2. Announced(items, n + 1, len)
    BY <2>1, <1>3, <1>4, <1>5, AnnouncedGrows
  <2> HIDE DEF len
  <2>3. /\ reading'.client = c /\ reading'.at = n + 1 /\ reading'.length = len
        /\ reading'.body = <<>>
    BY <2>1, <1>2, <1>4
  <2>4. CASE Item = <<"blank">>
    <3>1. EmptyLineAt(items, n + 1)
      <4>1. items[n + 1] = <<"blank">> /\ NoEmptyLine(items, n)
        BY <2>1, <2>4, <1>4, <1>5
      <4> HIDE DEF items, n
      <4> QED BY <4>1, <1>3, EmptyLineIsNext
    <3>2. SubSeq(items, n + 1 + 1, n + 1) = <<>>
      BY <1>3, SubSeqEmpty
    <3>3. n + 1 \in 1..(n + 1)
      BY <1>3
    <3>4. BodyUpTo(c, n + 1, len, <<>>)
      BY <2>2, <3>1, <3>2, <3>3 DEF BodyUpTo
    <3> QED BY <1>1, <1>6, <1>12, <2>1, <2>3, <2>4, <3>4, ReadOnBody
  <2>5. CASE Item # <<"blank">>
    BY <1>1, <1>4, <1>6, <1>8, <1>12, <2>1, <2>2, <2>3, <2>5, ReadOnBody
  <2> QED BY <2>4, <2>5
<1>13. CASE ReadBody /\ ~ParseFails
  <2>1. /\ pc = "body" /\ Arrived /\ pc' = "body" /\ UNCHANGED <<streams, conn>>
        /\ reading' = [reading EXCEPT !.at = @ + 1, !.body = Append(@, Item)]
    BY <1>13 DEF ReadBody
  <2>2. /\ reading'.client = c /\ reading'.at = n + 1 /\ reading'.length = reading.length
        /\ reading'.body = Append(reading.body, items[n + 1])
    BY <2>1, <1>2, <1>5
  <2>3. n # sent[c]
    BY <2>1, <1>3, <1>5
  <2>4. PICK k \in 1..n : /\ EmptyLineAt(items, k) /\ Announced(items, k, reading.length)
                          /\ reading.body = SubSeq(items, k + 1, n)
    BY <2>1, <2>3, <1>4 DEF BodyUpTo
  <2>5. reading'.body = SubSeq(items, k + 1, n + 1)
    <3>1. k \in Nat /\ k <= n /\ n < Len(items)
      BY <2>1, <1>3, <1>5
    <3> HIDE DEF items, n
    <3>2. Append(SubSeq(items, k + 1, n), items[n + 1]) = SubSeq(items, k + 1, n + 1)
      BY <1>3, <3>1, StretchGrows
    <3>3. reading.body = SubSeq(items, k + 1, n)
      BY <2>4
    <3> QED BY <2>2, <3>2, <3>3
  <2>6. k \in 1..(n + 1)
    BY <1>3
  <2>7. BodyUpTo(c, n + 1, reading.length, reading'.body)
    BY <2>4, <2>5, <2>6 DEF BodyUpTo
  <2> QED BY <1>1, <1>6, <2>1, <2>2, <2>7, ReadOnBody
<1> QED BY <1>9, <1>10, <1>11, <1>12, <1>13 DEF ReadHeader

LEMMA HandOverBody == ASSUME ServerInv, BodyInv, HandOver PROVE BodyInv'
<1> DEFINE new == [id |-> reading.id, line |-> reading.line, body |-> reading.body]
<1>1. /\ pc = "body" /\ held' = held \cup {new} /\ pc' \notin Parsing
      /\ Len(reading.body) = reading.length
      /\ UNCHANGED <<streams, script, sent, hungup, conn>>
  BY DEF HandOver, BodyRead, clientVars, Parsing
<1>2. /\ streams[reading.id] = reading.client /\ reading.at \in Nat
      /\ reading.at <= sent[reading.client]
      /\ BodyUpTo(reading.client, reading.at, reading.length, reading.body)
  BY <1>1 DEF ServerInv, ReadingOwn, BodyInv, ReadingBody, Parsing
<1>3. ClientsSend'
  BY <1>1, ClientsStay
<1>4. ReadingBody'
  BY <1>1 DEF ReadingBody
<1>5. HeldWhole'
  <2> SUFFICES ASSUME NEW r \in held', r.id \in DOMAIN streams
               PROVE  \E n \in Nat : /\ n <= sent[streams[r.id]]
                                     /\ BodyUpTo(streams[r.id], n, Len(r.body), r.body)
    BY <1>1 DEF HeldWhole, BodyUpTo
  <2>1. CASE r \in held
    BY <2>1 DEF BodyInv, HeldWhole
  <2>2. CASE r = new
    <3>1. r.id = reading.id /\ r.body = reading.body
      BY <2>2
    <3> QED BY <3>1, <1>1, <1>2
  <2> QED BY <2>1, <2>2, <1>1
<1> QED BY <1>3, <1>4, <1>5 DEF BodyInv

LEMMA RespondBody ==
    ASSUME ServerInv, BodyInv, NEW r \in held, NEW status, NEW written,
           Respond(r, status, written), UNCHANGED clientVars, pc' \notin Parsing,
           \A q \in held' : q \in held
    PROVE  BodyInv'
BY GivenUpBody DEF Respond

LEMMA HttpBody == ASSUME ServerInv, BodyInv, HttpNext PROVE BodyInv'
<1>1. ASSUME NEW r \in held, NEW status, NEW written, ChatResponds(r, status, written)
      PROVE  BodyInv'
  BY <1>1, RespondBody DEF ChatResponds, Parsing
<1>2. CASE ServerStep
  <2>1. CASE (\E ok \in BOOLEAN : Listen(ok)) \/ AskModel
    BY <2>1, QuietBody
  <2>2. CASE \E ok \in BOOLEAN : Accept(ok)
    BY <2>2, AcceptBody
  <2>3. CASE ReadRequestLine \/ ReadHeader \/ ReadBody
    BY <2>3, ReadBodyKeeps
  <2>4. CASE HandOver
    BY <2>4, HandOverBody
  <2>5. ASSUME NEW written \in BOOLEAN, Handle(written) PROVE BodyInv'
    BY <2>5, <1>1 DEF Handle
  <2>6. ASSUME NEW written \in BOOLEAN, NEW ok \in BOOLEAN, ModelAnswers(ok, written)
        PROVE  BodyInv'
    <3>1. PICK r \in held : ChatResponds(r, IF ok THEN 200 ELSE 500, written)
      BY <2>6 DEF ModelAnswers
    <3> QED BY <3>1, <1>1
  <2> QED BY <1>2, <2>1, <2>2, <2>3, <2>4, <2>5, <2>6, DeathBody DEF ServerStep
<1>3. CASE ProgramStep
  <2>1. CASE CallAccept \/ ProgramEnds
    BY <2>1, QuietBody
  <2>2. ASSUME NEW r \in held, NEW status \in Statuses, NEW written \in BOOLEAN,
               Reply(r, status, written)
        PROVE  BodyInv'
    <3>1. UNCHANGED clientVars /\ UNCHANGED held /\ pc' \notin Parsing
      BY <2>2 DEF Reply, Parsing
    <3>2. CASE status \notin 100..599
      BY <2>2, <3>1, <3>2, GivenUpBody DEF Reply
    <3>3. CASE status \in 100..599
      <4>1. Respond(r, status, written)
        BY <2>2, <3>3 DEF Reply
      <4> QED BY <4>1, <3>1, RespondBody
    <3> QED BY <3>2, <3>3
  <2> QED BY <1>3, <2>1, <2>2 DEF ProgramStep
<1>4. CASE AcceptError
  BY <1>4, QuietBody
<1>5. CASE ClientStep
  <2>1. PICK c \in Clients : Connect(c) \/ Send(c) \/ HangUp(c)
    BY <1>5 DEF ClientStep
  <2> QED BY <2>1, ClientBody
<1> QED BY <1>2, <1>3, <1>4, <1>5 DEF HttpNext

\* A body is handed over whole or not at all, whatever the client sent after it
\* and wherever it hung up, for any clients and scripts (parse_http_request).
THEOREM BodiesAreWhole == Spec => []BodyIsWhole
<1>1. Init => ServerInv /\ BodyInv
  BY ServerInitInv, BodyInit DEF Init
<1>2. ServerInv /\ BodyInv /\ [Next]_servicesVars => (ServerInv /\ BodyInv)'
  <2> SUFFICES ASSUME ServerInv, BodyInv, [Next]_servicesVars PROVE ServerInv' /\ BodyInv'
    OBVIOUS
  <2>1. CASE Serve(HttpNext)
    BY <2>1, HttpKeeps, HttpBody DEF Serve
  <2>2. CASE UNCHANGED httpVars
    <3>1. ServerInv'
      BY <2>2, ServerElsewhere
    <3>2. BodyInv'
      BY <2>2 DEF BodyInv, ClientsSend, ReadingBody, HeldWhole, BodyUpTo, httpVars, serverVars,
                  clientVars
    <3> QED BY <3>1, <3>2
  <2> QED BY <2>1, <2>2 DEF Next, servicesVars
<1> QED BY <1>1, <1>2, BodyInvMeans, PTL DEF Spec

-----------------------------------------------------------------------------
(* The talk of a network.                                                  *)

\* Names differ; the position d turns after the p-th; nobody hands over by name
\* in rounds i to j of a talk.
NamesDiffer == \A p, q \in DOMAIN agents : agents[p] = agents[q] => p = q
Turn(p, d) == IF p + d <= Len(agents) THEN p + d ELSE p + d - Len(agents)
NoHandOff(rounds, i, j) == \A k \in i..j : rounds[k].reply \notin Range(agents)

\* Whose turn it is d rounds after that agent's, when turns go round.
After(name, d) == agents[Turn(Position(name), d)]

\* As long as nobody hands over, turns go round: the agent asked in round j
\* follows from the one asked in round i, and so does the next to be asked.
GoesRound(rounds, talking, coming) ==
    \A i \in 1..Len(rounds), j \in 1..Len(rounds) : i <= j =>
        /\ NoHandOff(rounds, i, j - 1) /\ j - i < Len(agents) =>
            rounds[j].from = After(rounds[i].from, j - i)
        /\ j = Len(rounds) /\ talking /\ NoHandOff(rounds, i, j) /\ j - i + 1 < Len(agents) =>
            coming = After(rounds[i].from, j - i + 1)

TurnsGoRound == NamesDiffer => GoesRound(talk, phase = "talk", current)

TalkInv ==
    /\ agents \in Seq(AgentNames)
    /\ talk \in Seq([from : Range(agents), reply : AgentNames \cup {Ends, Plain}])
    /\ TurnsGoRound

LEMMA CountedNamesDiffer ==
    ASSUME agents \in Seq(AgentNames), Cardinality(Range(agents)) = Len(agents)
    PROVE  NamesDiffer
<1> DEFINE n == Len(agents)
<1>1. n \in Nat /\ DOMAIN agents = 1..n
  OBVIOUS
<1>2. agents \in [1..n -> Range(agents)] /\ \A t \in Range(agents) : \E s \in 1..n : agents[s] = t
  <2>1. agents \in [1..n -> AgentNames]
    BY LenProperties
  <2>2. Range(agents) = {agents[x] : x \in 1..n}
    BY <1>1 DEF Range
  <2> HIDE DEF n
  <2> QED BY <2>1, <2>2
<1>3. IsFiniteSet(1..n) /\ Cardinality(1..n) = n
  <2> HIDE DEF n
  <2>1. n \in Nat
    BY <1>1
  <2>2. 1 \in Int /\ n \in Int
    BY <2>1
  <2>3. IsFiniteSet(1..n) /\ Cardinality(1..n) = IF 1 > n THEN 0 ELSE n - 1 + 1
    BY <2>2, FS_Interval, Zenon
  <2> QED BY <2>1, <2>3
<1>4. agents \in Surjection(1..n, Range(agents))
  BY <1>2 DEF Surjection
<1>5. agents \in Injection(1..n, Range(agents))
  <2>1. Cardinality(1..n) = Cardinality(Range(agents))
    BY <1>3
  <2> HIDE DEF n
  <2> QED BY <1>3, <1>4, <2>1, FS_SurjSameCardinalityImpliesInj
<1> QED BY <1>5 DEF NamesDiffer, Injection, IsInjective

LEMMA PositionOfAgent ==
    ASSUME agents \in Seq(AgentNames), NamesDiffer, NEW p \in 1..Len(agents)
    PROVE  Position(agents[p]) = p
<1> DEFINE I == {i \in 1..Len(agents) : agents[i] = agents[p]}
<1>1. I = {p}
  BY DEF NamesDiffer
<1>2. Min(I) = p
  BY <1>1 DEF Min
<1>3. Position(agents[p]) = IF I # {} THEN Min(I) ELSE 0
  BY DEF Position, SelectInSeq
<1> QED BY <1>1, <1>2, <1>3

LEMMA NextPosition ==
    ASSUME NEW n \in Nat, NEW p \in 1..n
    PROVE  (p % n) + 1 = IF p = n THEN 1 ELSE p + 1
OBVIOUS

\* One turn is the next agent's.
LEMMA TurnTurns ==
    ASSUME agents \in Seq(AgentNames), NamesDiffer, NEW p \in 1..Len(agents),
           NEW d \in Nat, d + 1 < Len(agents)
    PROVE  Turn(p, d) \in 1..Len(agents) /\ NextAgent(agents[Turn(p, d)]) = agents[Turn(p, d + 1)]
<1> DEFINE n == Len(agents)
           q == Turn(p, d)
<1>1. n \in Nat
  OBVIOUS
<1>2. q = IF p + d <= n THEN p + d ELSE p + d - n
  BY DEF Turn
<1>3. Turn(p, d + 1) = IF p + (d + 1) <= n THEN p + (d + 1) ELSE p + (d + 1) - n
  BY DEF Turn
<1>4. p \in 1..n /\ d + 1 < n
  OBVIOUS
<1> HIDE DEF n, q
<1>5. q \in 1..n
  BY <1>1, <1>2, <1>4
<1>6. Turn(p, d + 1) = IF q = n THEN 1 ELSE q + 1
  BY <1>1, <1>2, <1>3, <1>4
<1>7. Position(agents[q]) = q
  BY <1>5, PositionOfAgent DEF n
<1>8. NextAgent(agents[q]) = agents[(q % n) + 1]
  BY <1>7 DEF NextAgent, n
<1>9. (q % n) + 1 = IF q = n THEN 1 ELSE q + 1
  BY <1>1, <1>5, NextPosition
<1> QED BY <1>5, <1>6, <1>8, <1>9 DEF n, q

LEMMA TalkInvMeans == TalkInv => EveryoneSpeaks
<1> SUFFICES ASSUME TalkInv, Cardinality(Range(agents)) = Len(agents), NEW i \in DOMAIN talk,
                    i + Len(agents) - 1 \in DOMAIN talk,
                    \A k \in i..(i + Len(agents) - 1) : talk[k].reply \notin Range(agents)
             PROVE  Speakers(i, i + Len(agents) - 1) = Range(agents)
  BY DEF EveryoneSpeaks
<1> DEFINE n == Len(agents)
           j == i + n - 1
<1>1. /\ agents \in Seq(AgentNames) /\ n \in Nat /\ DOMAIN agents = 1..n /\ Len(talk) \in Nat
      /\ DOMAIN talk = 1..Len(talk) /\ \A k \in 1..Len(talk) : talk[k].from \in Range(agents)
  <2> DEFINE R == [from : Range(agents), reply : AgentNames \cup {Ends, Plain}]
  <2>1. agents \in Seq(AgentNames) /\ talk \in Seq(R)
    BY DEF TalkInv
  <2>2. \A r \in R : r.from \in Range(agents)
    OBVIOUS
  <2> HIDE DEF R
  <2>3. Len(talk) \in Nat /\ DOMAIN talk = 1..Len(talk) /\ \A k \in 1..Len(talk) : talk[k] \in R
    BY <2>1
  <2> QED BY <2>1, <2>2, <2>3
<1>2. NamesDiffer
  BY <1>1, CountedNamesDiffer
<1>3. i \in 1..Len(talk) /\ j \in 1..Len(talk)
  BY <1>1
<1>4. \A k \in i..j : k \in 1..Len(talk)
  BY <1>1, <1>3
<1>5. Speakers(i, j) \subseteq Range(agents)
  BY <1>1, <1>4 DEF Speakers
<1>6. ASSUME NEW name \in Range(agents) PROVE name \in Speakers(i, j)
  <2>1. PICK q \in 1..n : name = agents[q]
    BY <1>1 DEF Range
  <2>2. PICK p \in 1..n : talk[i].from = agents[p]
    BY <1>1, <1>3 DEF Range
  <2>3. Position(talk[i].from) = p
    BY <1>1, <1>2, <2>2, PositionOfAgent
  <2> DEFINE d == IF q >= p THEN q - p ELSE q - p + n
  <2>4. d \in Nat /\ d < n /\ Turn(p, d) = q
    <3>1. Turn(p, d) = IF p + d <= n THEN p + d ELSE p + d - n
      BY DEF Turn
    <3> HIDE DEF n
    <3>2. d \in Nat /\ d < n
      BY <1>1
    <3> QED BY <1>1, <3>1, <3>2
  <2> HIDE DEF d
  <2>5. i + d \in i..j /\ (i + d) - i = d /\ i <= i + d
    <3> HIDE DEF n
    <3> QED BY <1>1, <1>3, <2>4
  <2>6. NoHandOff(talk, i, (i + d) - 1)
    <3>1. \A k \in i..((i + d) - 1) : k \in i..j
      <4> HIDE DEF n
      <4> QED BY <1>1, <1>3, <2>4
    <3> QED BY <3>1 DEF NoHandOff
  <2>7. talk[i + d].from = After(talk[i].from, d)
    <3>1. i + d \in 1..Len(talk)
      BY <1>4, <2>5
    <3>2. \A l \in 1..Len(talk) : i <= l => (NoHandOff(talk, i, l - 1) /\ l - i < Len(agents) =>
                                            talk[l].from = After(talk[i].from, l - i))
      BY <1>2, <1>3 DEF TalkInv, TurnsGoRound, GoesRound
    <3>3. i <= i + d /\ (i + d) - i < Len(agents)
      BY <2>4, <2>5
    <3>4. talk[i + d].from = After(talk[i].from, (i + d) - i)
      BY <3>1, <3>2, <3>3, <2>6
    <3> QED BY <3>4, <2>5
  <2>8. talk[i + d].from = name
    BY <2>1, <2>3, <2>4, <2>7 DEF After
  <2> QED BY <2>5, <2>8 DEF Speakers
<1> QED BY <1>5, <1>6

LEMMA TalkInit == NetInit => TalkInv
BY DEF NetInit, TalkInv, TurnsGoRound, GoesRound

\* A new talk begins with nobody heard.
LEMMA NewTalk ==
    ASSUME agents' \in Seq(AgentNames), talk' = <<>> PROVE TalkInv'
BY DEF TalkInv, TurnsGoRound, GoesRound

\* While the agents stay, so does the meaning of a turn.
LEMMA SameAgents ==
    ASSUME UNCHANGED agents, GoesRound(talk', phase' = "talk", current')
    PROVE  GoesRound(talk, phase = "talk", current)'
<1>1. SUFFICES ASSUME NEW i \in 1..Len(talk'), NEW j \in 1..Len(talk'), i <= j
               PROVE  /\ NoHandOff(talk, i, j - 1)' /\ j - i < Len(agents') =>
                          talk'[j].from = After(talk[i].from, j - i)'
                      /\ j = Len(talk') /\ phase' = "talk" /\ NoHandOff(talk, i, j)'
                           /\ j - i + 1 < Len(agents') =>
                             current' = After(talk[i].from, j - i + 1)'
  BY DEF GoesRound
<1>2. /\ After(talk[i].from, j - i)' = After(talk'[i].from, j - i)
      /\ After(talk[i].from, j - i + 1)' = After(talk'[i].from, j - i + 1)
  BY DEF After, Turn, Position, SelectInSeq
<1>3. /\ NoHandOff(talk, i, j - 1)' => NoHandOff(talk', i, j - 1)
      /\ NoHandOff(talk, i, j)' => NoHandOff(talk', i, j)
  BY DEF NoHandOff
<1>4. /\ NoHandOff(talk', i, j - 1) /\ j - i < Len(agents) =>
            talk'[j].from = After(talk'[i].from, j - i)
      /\ j = Len(talk') /\ phase' = "talk" /\ NoHandOff(talk', i, j) /\ j - i + 1 < Len(agents) =>
            current' = After(talk'[i].from, j - i + 1)
  BY <1>1 DEF GoesRound
<1> QED BY <1>2, <1>3, <1>4

LEMMA SameTalk ==
    ASSUME TalkInv, UNCHANGED <<agents, talk>>,
           phase' # "talk" \/ UNCHANGED <<phase, current>>
    PROVE  TalkInv'
<1>1. UNCHANGED <<agents, talk>>
  OBVIOUS
<1>2. GoesRound(talk, phase = "talk", current) => GoesRound(talk', phase' = "talk", current')
  BY <1>1 DEF GoesRound
<1>3. TurnsGoRound'
  BY <1>1, <1>2, SameAgents DEF TalkInv, TurnsGoRound, NamesDiffer
<1> QED BY <1>1, <1>3 DEF TalkInv

\* One more round: the agent whose turn it is speaks.
LEMMA OneMoreRound ==
    ASSUME agents \in Seq(AgentNames), NamesDiffer,
           NEW R, \A r \in R : r.from \in Range(agents), NEW rounds \in Seq(R),
           NEW new \in R, GoesRound(rounds, TRUE, new.from),
           NEW talking \in BOOLEAN, NEW coming,
           talking /\ new.reply \notin Range(agents) => coming = NextAgent(new.from)
    PROVE  GoesRound(Append(rounds, new), talking, coming)
<1> DEFINE n == Len(agents)
           m == Len(rounds)
           longer == Append(rounds, new)
<1>1. n \in Nat /\ DOMAIN agents = 1..n
  OBVIOUS
<1>2. /\ longer \in Seq(R) /\ m \in Nat /\ Len(longer) = m + 1 /\ longer[m + 1] = new
      /\ \A k \in 1..m : longer[k] = rounds[k]
  OBVIOUS
<1>3. \A i \in 1..m, j \in 1..m : i <= j =>
        /\ NoHandOff(rounds, i, j - 1) /\ j - i < n => rounds[j].from = After(rounds[i].from, j - i)
        /\ j = m /\ NoHandOff(rounds, i, j) /\ j - i + 1 < n =>
             new.from = After(rounds[i].from, j - i + 1)
  BY DEF GoesRound
<1> HIDE DEF longer
<1>4. \A i \in 1..(m + 1), j \in Int :
        j <= m /\ NoHandOff(longer, i, j) => NoHandOff(rounds, i, j)
  <2>1. \A i \in 1..(m + 1), j \in Int : j <= m => \A k \in i..j : k \in 1..m
    BY <1>2
  <2> QED BY <2>1, <1>2 DEF NoHandOff
<1>5. \A k \in 1..(m + 1) : \E p \in 1..n : longer[k].from = agents[p]
  BY <1>1, <1>2 DEF Range
<1>6. ASSUME NEW i \in 1..(m + 1), NEW j \in 1..(m + 1), i <= j,
             NoHandOff(longer, i, j - 1), j - i < n
      PROVE  longer[j].from = After(longer[i].from, j - i)
  <2>1. CASE j <= m
    <3>1. i \in 1..m /\ j \in 1..m /\ j - 1 \in Int /\ j - 1 <= m
      BY <1>2, <1>6, <2>1
    <3>2. NoHandOff(rounds, i, j - 1)
      BY <1>4, <1>6, <3>1
    <3>3. longer[i] = rounds[i] /\ longer[j] = rounds[j]
      BY <1>2, <3>1
    <3> QED BY <1>3, <1>6, <3>1, <3>2, <3>3
  <2>2. CASE j = m + 1 /\ i <= m
    <3>1. i \in 1..m /\ m \in 1..m /\ i <= m /\ m - i + 1 < n /\ j - i = m - i + 1 /\ j - 1 = m
      BY <1>2, <1>6, <2>2
    <3>2. NoHandOff(rounds, i, m)
      BY <1>4, <1>6, <3>1, <1>2
    <3>3. new.from = After(rounds[i].from, m - i + 1)
      BY <1>3, <3>1, <3>2
    <3>4. longer[i] = rounds[i] /\ longer[j].from = new.from
      BY <1>2, <2>2, <3>1
    <3> QED BY <3>1, <3>3, <3>4
  <2>3. CASE i = m + 1 /\ j = m + 1
    <3>1. PICK p \in 1..n : longer[i].from = agents[p]
      BY <1>5
    <3>2. Position(longer[i].from) = p
      BY <3>1, PositionOfAgent
    <3>3. Turn(p, 0) = p
      BY <1>1 DEF Turn
    <3>4. j - i = 0 /\ i = j
      BY <1>2, <2>3
    <3>5. After(longer[i].from, 0) = longer[i].from
      BY <3>1, <3>2, <3>3 DEF After
    <3> QED BY <3>4, <3>5
  <2> QED BY <1>2, <1>6, <2>1, <2>2, <2>3
<1>7. ASSUME NEW i \in 1..(m + 1), talking, NoHandOff(longer, i, m + 1), (m + 1) - i + 1 < n
      PROVE  coming = After(longer[i].from, (m + 1) - i + 1)
  <2> DEFINE d == (m + 1) - i
             p == Position(longer[i].from)
  <2>1. d \in Nat /\ d + 1 < n /\ d < n /\ m + 1 \in 1..(m + 1) /\ i <= m + 1
    BY <1>1, <1>2, <1>7
  <2>2. NoHandOff(longer, i, (m + 1) - 1)
    BY <1>2, <1>7 DEF NoHandOff
  <2>3. longer[m + 1].from = After(longer[i].from, d)
    BY <1>6, <2>1, <2>2
  <2>4. longer[m + 1].reply \notin Range(agents)
    BY <1>2, <1>7, <2>1 DEF NoHandOff
  <2>5. coming = NextAgent(longer[m + 1].from)
    BY <1>2, <1>7, <2>4
  <2>6. p \in 1..n
    <3>1. PICK q \in 1..n : longer[i].from = agents[q]
      BY <1>5
    <3> QED BY <3>1, PositionOfAgent
  <2> HIDE DEF d, p
  <2>7. NextAgent(agents[Turn(p, d)]) = agents[Turn(p, d + 1)]
    BY <2>1, <2>6, TurnTurns
  <2>8. longer[m + 1].from = agents[Turn(p, d)]
    BY <2>3 DEF After, p
  <2>9. After(longer[i].from, d + 1) = agents[Turn(p, d + 1)]
    BY DEF After, p
  <2> QED BY <2>5, <2>7, <2>8, <2>9 DEF d
<1> HIDE DEF n, m
<1>8. Len(agents) = n /\ Len(longer) = m + 1
  BY <1>2 DEF n
<1>9. ASSUME NEW i \in 1..(m + 1), NEW j \in 1..(m + 1), i <= j,
             j = m + 1, talking, NoHandOff(longer, i, j), j - i + 1 < n
      PROVE  coming = After(longer[i].from, j - i + 1)
  BY <1>7, <1>9
<1>10. GoesRound(longer, talking, coming)
  BY <1>6, <1>8, <1>9 DEF GoesRound
<1> QED BY <1>10 DEF longer

LEMMA RoundKeeps ==
    ASSUME TalkInv, NEW reply \in AgentNames \cup {Ends, Plain}, NEW ok \in BOOLEAN,
           Round(reply, ok)
    PROVE  TalkInv'
<1> DEFINE R == [from : Range(agents), reply : AgentNames \cup {Ends, Plain}]
           new == [from |-> current, reply |-> reply]
<1>1. phase = "talk" /\ UNCHANGED agents
  BY DEF Round
<1>2. CASE ~Contains(agents, current) \/ ~ok
  <2>1. phase' = "raised" /\ UNCHANGED talk
    BY <1>2 DEF Round
  <2> QED BY <1>1, <2>1, SameTalk
<1>3. CASE Contains(agents, current) /\ ok
  <2>1. /\ talk' = Append(talk, new)
        /\ phase' = "done" \/ (phase' = "talk" /\ current' = Successor(reply))
    BY <1>1, <1>3 DEF Round
  <2>2. agents \in Seq(AgentNames) /\ talk \in Seq(R)
    BY DEF TalkInv
  <2>3. new \in R /\ new.from = current /\ new.reply = reply
    BY <1>3, <2>2 DEF Contains, Range
  <2>4. \A r \in R : r.from \in Range(agents)
    OBVIOUS
  <2> HIDE DEF R, new
  <2>5. talk' \in Seq(R)
    BY <2>1, <2>2, <2>3
  <2>6. ASSUME NamesDiffer PROVE GoesRound(Append(talk, new), phase' = "talk", current')
    <3>1. GoesRound(talk, TRUE, new.from)
      BY <1>1, <2>3, <2>6 DEF TalkInv, TurnsGoRound
    <3>2. (phase' = "talk") /\ new.reply \notin Range(agents) => current' = NextAgent(new.from)
      BY <2>1, <2>3 DEF Successor
    <3>3. (phase' = "talk") \in BOOLEAN
      OBVIOUS
    <3> QED BY <2>2, <2>3, <2>4, <2>6, <3>1, <3>2, <3>3, OneMoreRound
  <2>7. TurnsGoRound'
    <3>1. NamesDiffer' => NamesDiffer
      BY <1>1 DEF NamesDiffer
    <3> QED BY <1>1, <2>1, <2>6, <3>1, SameAgents DEF TurnsGoRound
  <2> QED BY <1>1, <2>2, <2>5, <2>7 DEF TalkInv, R
<1> QED BY <1>2, <1>3

LEMMA TalkKeeps == ASSUME TalkInv, NetNext PROVE TalkInv'
<1>1. ASSUME NEW args \in LimitArgs, NewNetwork(args) PROVE TalkInv'
  <2>1. UNCHANGED <<agents, talk>> /\ phase' # "talk"
    BY <1>1 DEF NewNetwork
  <2> QED BY <2>1, SameTalk
<1>2. ASSUME NEW name \in AgentNames, AddAgent(name) PROVE TalkInv'
  <2>1. agents' \in Seq(AgentNames) /\ talk' = <<>>
    BY <1>2 DEF AddAgent, TalkInv
  <2> QED BY <2>1, NewTalk
<1>3. ASSUME NEW entry \in Entries, NEW told, Run(entry, told) PROVE TalkInv'
  <2>1. agents' \in Seq(AgentNames) /\ talk' = <<>>
    BY <1>3 DEF Run, TalkInv
  <2> QED BY <2>1, NewTalk
<1>4. ASSUME NEW reply \in AgentNames \cup {Ends, Plain}, NEW ok \in BOOLEAN, Round(reply, ok)
      PROVE  TalkInv'
  BY <1>4, RoundKeeps
<1>5. CASE Finish
  <2>1. UNCHANGED <<agents, talk>> /\ phase' # "talk"
    BY <1>5 DEF Finish
  <2> QED BY <2>1, SameTalk
<1> QED BY <1>1, <1>2, <1>3, <1>4, <1>5 DEF NetNext

\* Everyone's turn comes, for any number of agents, whatever they reply and
\* wherever a talk begins: while nobody hands over by name, any stretch of as
\* many rounds as there are agents hears all of them (run_ai_network).
THEOREM TurnsComeRound == Spec => []EveryoneSpeaks
<1>1. Init => TalkInv
  BY TalkInit DEF Init
<1>2. TalkInv /\ [Next]_servicesVars => TalkInv'
  <2> SUFFICES ASSUME TalkInv, [Next]_servicesVars PROVE TalkInv'
    OBVIOUS
  <2>1. CASE NetNext
    BY <2>1, TalkKeeps
  <2>2. CASE UNCHANGED netVars
    BY <2>2, SameTalk DEF netVars
  <2> QED BY <2>1, <2>2 DEF Next, Serve, servicesVars
<1> QED BY <1>1, <1>2, TalkInvMeans, PTL DEF Spec

-----------------------------------------------------------------------------
(* The cache.                                                              *)

\* What is on its way is the answer to the fetch in progress.
CacheInv == CacheHasOrigin /\ (response # NoBytes => response.of = fetch /\ fetch # NoFetch)

LEMMA CacheKeeps == ASSUME CacheInv, CacheNext PROVE CacheInv'
<1> USE DEF CacheInv, CacheHasOrigin
<1>1. CASE \E repo \in Repos : Fetch(repo)
  <2>1. UNCHANGED <<files, response, answers>> /\ response = NoBytes
    BY <1>1 DEF Fetch
  <2> QED BY <2>1
<1>2. CASE Hit
  BY <1>2 DEF Hit, Settle, Cached
<1>3. CASE RequestFails \/ BadStatus
  BY <1>3 DEF RequestFails, BadStatus, Settle
<1>4. ASSUME NEW status \in {200, 404}, NEW whole \in BOOLEAN, OriginAnswers(status, whole)
      PROVE  CacheInv'
  BY <1>4 DEF OriginAnswers
<1>5. CASE Store
  BY <1>5 DEF Store, Accepted
<1>6. ASSUME NEW begun \in BOOLEAN, StoreBreaks(begun) PROVE CacheInv'
  BY <1>6 DEF StoreBreaks, Accepted
<1> QED BY <1>1, <1>2, <1>3, <1>4, <1>5, <1>6 DEF CacheNext

\* The cache holds, and fetches return, only what an origin sent as a module,
\* for any repositories and wherever writes break off (fetch_github_dep_to_cache).
THEOREM CachedFromOrigin == Spec => []CacheHasOrigin
<1>1. Init => CacheInv
  BY DEF Init, CacheInit, CacheInv, CacheHasOrigin
<1>2. CacheInv /\ [Next]_servicesVars => CacheInv'
  <2> SUFFICES ASSUME CacheInv, [Next]_servicesVars PROVE CacheInv'
    OBVIOUS
  <2>1. CASE CacheNext
    BY <2>1, CacheKeeps
  <2>2. CASE UNCHANGED cacheVars
    BY <2>2 DEF CacheInv, CacheHasOrigin, cacheVars
  <2> QED BY <2>1, <2>2 DEF Next, Serve, servicesVars
<1>3. CacheInv => CacheHasOrigin
  BY DEF CacheInv
<1> QED BY <1>1, <1>2, <1>3, PTL DEF Spec

-----------------------------------------------------------------------------
(* Loading modules.                                                        *)

\* What a module has passed is the checks up to some point.
PassedUpTo(n) == {Checks[i] : i \in 1..n}

LEMMA ChecksDiffer ==
    /\ Len(Checks) = 6 /\ DOMAIN Checks = 1..6
    /\ \A i, j \in 1..6 : Checks[i] = Checks[j] => i = j
    /\ \A i \in 1..6 : Checks[i] \in RunsCode => i > 2
BY DEF Checks, RunsCode

LEMMA OneMoreCheck ==
    ASSUME NEW n \in 0..5, IsFiniteSet(PassedUpTo(n)), Cardinality(PassedUpTo(n)) = n
    PROVE  /\ PassedUpTo(n + 1) = PassedUpTo(n) \cup {Checks[n + 1]}
           /\ IsFiniteSet(PassedUpTo(n + 1)) /\ Cardinality(PassedUpTo(n + 1)) = n + 1
<1>1. PassedUpTo(n + 1) = PassedUpTo(n) \cup {Checks[n + 1]}
  BY DEF PassedUpTo
<1>2. Checks[n + 1] \notin PassedUpTo(n)
  BY ChecksDiffer DEF PassedUpTo
<1> QED BY <1>1, <1>2, FS_AddElement

LEMMA CountPassed ==
    \A n \in 0..6 : IsFiniteSet(PassedUpTo(n)) /\ Cardinality(PassedUpTo(n)) = n
<1>0. IsFiniteSet(PassedUpTo(0)) /\ Cardinality(PassedUpTo(0)) = 0
  <2>1. PassedUpTo(0) = {}
    BY DEF PassedUpTo
  <2> QED BY <2>1, FS_EmptySet
<1>1. IsFiniteSet(PassedUpTo(1)) /\ Cardinality(PassedUpTo(1)) = 1
  BY <1>0, OneMoreCheck
<1>2. IsFiniteSet(PassedUpTo(2)) /\ Cardinality(PassedUpTo(2)) = 2
  BY <1>1, OneMoreCheck
<1>3. IsFiniteSet(PassedUpTo(3)) /\ Cardinality(PassedUpTo(3)) = 3
  BY <1>2, OneMoreCheck
<1>4. IsFiniteSet(PassedUpTo(4)) /\ Cardinality(PassedUpTo(4)) = 4
  BY <1>3, OneMoreCheck
<1>5. IsFiniteSet(PassedUpTo(5)) /\ Cardinality(PassedUpTo(5)) = 5
  BY <1>4, OneMoreCheck
<1>6. IsFiniteSet(PassedUpTo(6)) /\ Cardinality(PassedUpTo(6)) = 6
  BY <1>5, OneMoreCheck
<1> QED BY <1>0, <1>1, <1>2, <1>3, <1>4, <1>5, <1>6

Modules == toml.modules

\* Modules are loaded in order: those before `next` are checked and installed,
\* those behind it are not yet through.
LoadInOrder ==
    /\ toml \in Tomls /\ passed = [f \in Families |-> passed[f]]
    /\ table = [f \in Families |-> table[f]]
    /\ \A f \in Families : \E n \in 0..6 : passed[f] = PassedUpTo(n)
    /\ next \in 1..(Len(Modules) + 1)
    /\ \A i \in 1..Len(Modules) :
        IF i < next THEN passed[Modules[i]] = PassedUpTo(6) /\ table[Modules[i]] = "loaded"
        ELSE passed[Modules[i]] # PassedUpTo(6)
    /\ startup \in {"loading", "ready", "refused"}
    /\ startup = "loading" => next <= Len(Modules)
    /\ startup = "ready" => next = Len(Modules) + 1
    /\ startup # "ready" => answer = "none"

\* Code of a module runs from the third check on.
RanVerified ==
    \A f \in ran : f \in Families /\ \E n \in 2..6 : passed[f] = PassedUpTo(n)

LoadInv == LoadInOrder /\ RanVerified

LEMMA ModulesAreFamilies ==
    ASSUME NEW m \in Tomls
    PROVE  /\ m.modules \in Seq(Families)
           /\ \A i, j \in 1..Len(m.modules) : m.modules[i] = m.modules[j] => i = j
           /\ \A i \in 1..Len(m.modules) : m.modules[i] \in Families
           /\ Len(m.modules) \in Nat /\ DOMAIN m.modules = 1..Len(m.modules)
BY ConfigAssumption

LEMMA LoadInit == BackInit => LoadInv
<1> SUFFICES ASSUME BackInit PROVE LoadInv
  OBVIOUS
<1> USE DEF BackInit, ModulesInit
<1>1. PassedUpTo(0) = {}
  BY DEF PassedUpTo
<1>2. PassedUpTo(6) # {}
  BY ChecksDiffer DEF PassedUpTo
<1>3. Len(Modules) \in Nat /\ (Modules = <<>> <=> Len(Modules) = 0)
  BY ModulesAreFamilies DEF Modules
<1>4. \A i \in 1..Len(Modules) : Modules[i] \in Families
  BY ModulesAreFamilies DEF Modules
<1> QED BY <1>1, <1>2, <1>3, <1>4 DEF LoadInv, LoadInOrder, RanVerified, Modules

LEMMA LoadMeans == LoadInv => VerifiedBeforeRun
<1> SUFFICES ASSUME LoadInv PROVE VerifiedBeforeRun
  OBVIOUS
<1>1. \A f \in ran : {"hash", "signature"} \subseteq passed[f]
  <2>1. \A n \in 2..6 : 1 \in 1..n /\ 2 \in 1..n
    OBVIOUS
  <2>2. Checks[1] = "hash" /\ Checks[2] = "signature"
    BY DEF Checks
  <2>3. \A n \in 2..6 : {"hash", "signature"} \subseteq PassedUpTo(n)
    BY <2>1, <2>2 DEF PassedUpTo
  <2> QED BY <2>3 DEF LoadInv, RanVerified
<1>2. PassedUpTo(6) = Range(Checks)
  BY ChecksDiffer DEF PassedUpTo, Range
<1>3. startup = "ready" => \A f \in Range(toml.modules) :
                             table[f] = "loaded" /\ passed[f] = Range(Checks)
  <2> SUFFICES ASSUME startup = "ready", NEW i \in DOMAIN toml.modules
               PROVE  table[Modules[i]] = "loaded" /\ passed[Modules[i]] = PassedUpTo(6)
    BY <1>2 DEF Range, Modules
  <2>1. i \in 1..Len(Modules) /\ Len(Modules) \in Nat
    BY ModulesAreFamilies DEF Modules, LoadInv, LoadInOrder
  <2> QED BY <2>1 DEF LoadInv, LoadInOrder
<1> QED BY <1>1, <1>3 DEF VerifiedBeforeRun, LoadInv, LoadInOrder

LEMMA CheckKeeps ==
    ASSUME LoadInv, NEW ok \in BOOLEAN, Load(ok)
    PROVE  LoadInv'
<1> USE DEF LoadInv
<1>1. /\ startup = "loading" /\ toml' = toml /\ answer' = answer /\ answer = "none"
      /\ next \in 1..Len(Modules) /\ Len(Modules) \in Nat /\ Loading \in Families
      /\ Modules' = Modules /\ Loading = Modules[next]
  BY ModulesAreFamilies DEF Load, CheckModule, LoadInOrder, Modules, Loading
<1>2. PICK n \in 0..6 : passed[Loading] = PassedUpTo(n)
  BY <1>1 DEF LoadInOrder
<1>3. n \in 0..5 /\ CurrentCheck = Checks[n + 1]
  <2>1. n # 6
    BY <1>1, <1>2 DEF LoadInOrder
  <2> QED BY <1>2, <2>1, CountPassed DEF CurrentCheck
<1>4. ran' \subseteq ran \cup {Loading} /\ (Loading \in ran' /\ Loading \notin ran => n \in 2..5)
  BY <1>3, ChecksDiffer DEF Load, CheckModule
<1>5. CASE ~ok
  <2>1. startup' = "refused" /\ UNCHANGED <<table, next, passed>>
    BY <1>5 DEF Load, CheckModule
  <2>2. LoadInOrder'
    BY <1>1, <2>1 DEF LoadInOrder
  <2>3. RanVerified'
    BY <1>1, <1>2, <1>4, <2>1 DEF RanVerified
  <2> QED BY <2>2, <2>3
<1>6. CASE ok
  <2> DEFINE done == passed[Loading] \cup {CurrentCheck}
             installed == Cardinality(done) = Len(Checks)
  <2>1. /\ passed' = [passed EXCEPT ![Loading] = done]
        /\ table' = IF installed THEN [table EXCEPT ![Loading] = "loaded"] ELSE table
        /\ next' = IF installed THEN next + 1 ELSE next
        /\ startup' = IF installed /\ next = Len(Modules) THEN "ready" ELSE startup
    BY <1>6 DEF Load, CheckModule, Modules
  <2>2. done = PassedUpTo(n + 1) /\ (installed <=> n = 5)
    BY <1>2, <1>3, CountPassed, OneMoreCheck, ChecksDiffer
  <2>3. \A m \in 0..5 : PassedUpTo(m) # PassedUpTo(6)
    BY CountPassed
  <2> HIDE DEF done
  <2>4. /\ passed' = [f \in Families |-> passed'[f]]
        /\ passed'[Loading] = PassedUpTo(n + 1)
        /\ \A f \in Families \ {Loading} : passed'[f] = passed[f]
    BY <1>1, <2>1, <2>2 DEF LoadInOrder
  <2>5. /\ table' = [f \in Families |-> table'[f]]
        /\ installed => table'[Loading] = "loaded"
        /\ \A f \in Families \ {Loading} : table'[f] = table[f]
    BY <1>1, <2>1 DEF LoadInOrder
  <2> HIDE DEF installed
  <2>6. \A i \in 1..Len(Modules) : Modules[i] \in Families /\ (i # next => Modules[i] # Loading)
    BY <1>1, ModulesAreFamilies DEF LoadInOrder, Modules
  <2>7. \A f \in Families : \E m \in 0..6 : passed'[f] = PassedUpTo(m)
    <3>1. n + 1 \in 0..6
      BY <1>3
    <3> QED BY <2>4, <3>1 DEF LoadInOrder
  <2>8. \A i \in 1..Len(Modules) :
            IF i < next' THEN passed'[Modules[i]] = PassedUpTo(6) /\ table'[Modules[i]] = "loaded"
            ELSE passed'[Modules[i]] # PassedUpTo(6)
    <3> TAKE i \in 1..Len(Modules)
    <3>1. CASE i # next
      BY <1>1, <2>1, <2>4, <2>5, <2>6, <3>1 DEF LoadInOrder
    <3>2. CASE i = next /\ installed
      BY <1>1, <1>3, <2>1, <2>2, <2>4, <2>5, <3>2
    <3>3. CASE i = next /\ ~installed
      <4>1. n + 1 \in 0..5 /\ ~(i < next')
        BY <1>1, <1>3, <2>1, <2>2, <3>3
      <4> QED BY <1>1, <2>3, <2>4, <3>3, <4>1
    <3> QED BY <3>1, <3>2, <3>3
  <2>9. /\ next' \in 1..(Len(Modules) + 1) /\ startup' \in {"loading", "ready"}
        /\ startup' = "loading" => next' <= Len(Modules)
        /\ startup' = "ready" => next' = Len(Modules) + 1
    BY <1>1, <2>1
  <2>10. LoadInOrder'
    BY <1>1, <2>4, <2>5, <2>7, <2>8, <2>9 DEF LoadInOrder
  <2>11. RanVerified'
    <3> SUFFICES ASSUME NEW f \in ran'
                 PROVE  f \in Families /\ \E m \in 2..6 : passed'[f] = PassedUpTo(m)
      BY DEF RanVerified
    <3>1. CASE f # Loading
      BY <1>4, <2>4, <3>1 DEF RanVerified
    <3>2. CASE f = Loading
      <4>1. n >= 2
        <5>1. CASE f \in ran
          <6>1. PICK m \in 2..6 : PassedUpTo(n) = PassedUpTo(m)
            BY <1>2, <3>2, <5>1 DEF RanVerified
          <6> QED BY <6>1, <1>3, CountPassed
        <5> QED BY <1>4, <3>2, <5>1
      <4>2. n + 1 \in 2..6
        BY <1>3, <4>1
      <4> QED BY <1>1, <2>4, <3>2, <4>2
    <3> QED BY <3>1, <3>2
  <2> QED BY <2>10, <2>11
<1> QED BY <1>5, <1>6

\* What happens once the program runs leaves the modules as they are.
LEMMA LoadStep ==
    ASSUME LoadInv, [BackNext]_backVars
    PROVE  LoadInv'
<1> USE DEF LoadInv
<1>1. CASE \E ok \in BOOLEAN : Load(ok)
  BY <1>1, CheckKeeps
<1>2. ASSUME startup = "ready" \/ answer' = answer, UNCHANGED moduleVars
      PROVE  LoadInv'
  BY <1>2 DEF LoadInOrder, RanVerified, Modules, moduleVars
<1>3. CASE UNCHANGED backVars
  BY <1>2, <1>3 DEF backVars
<1>4. CASE BackNext /\ ~\E ok \in BOOLEAN : Load(ok)
  BY <1>2, <1>4 DEF BackNext, Running, MockCall, LoadedCall, RealCall, Real, MongoWrite,
     MongoWriteFails, RabbitPublish, RabbitPublishFails, MongoUnreadable, MongoRead,
     RabbitSubscribe, MinioPut, MinioPutFails, MinioGet, MinioMb, MinioLook, EnterBlock, Die
<1> QED BY <1>1, <1>3, <1>4

\* No code of a module that is not verified runs, and no program starts with
\* one that failed a check.
THEOREM ModulesAreVerified == BackSpec => []VerifiedBeforeRun
<1>1. BackInit => LoadInv
  BY LoadInit
<1>2. LoadInv /\ [BackNext]_backVars => LoadInv'
  BY LoadStep
<1>3. LoadInv => VerifiedBeforeRun
  BY LoadMeans
<1> QED BY <1>1, <1>2, <1>3, PTL DEF BackSpec

-----------------------------------------------------------------------------
(* The stores.                                                             *)

\* Every key a document may show, and every fragment a file may hold.
AnyKey == OwnKeys \cup (Nat \X Range(BlockKeys))
AnyFragment ==
    [doc : Docs \cup Msgs, keys : SUBSET AnyKey, brought : BOOLEAN, cut : Cuts \cup {"full"}]

\* A file is a sequence of lines; when the last has no end there is a last.
IsFile(file) ==
    /\ file = [lines |-> file.lines, open |-> file.open, garbled |-> file.garbled]
    /\ file.lines \in Seq(Seq(AnyFragment)) /\ file.open \in BOOLEAN
    /\ file.open => file.lines # <<>>

StoreTypes ==
    /\ IsFile(coll) /\ IsFile(queue)
    /\ run \in Nat /\ block \in 0..Len(BlockKeys)

StoreInv == StoreTypes /\ KeyStoredOnce

\* Where the text of an append comes to stand.
AppendedTo(file) == IF file.open THEN Len(file.lines) ELSE Len(file.lines) + 1

LEMMA AppendedFacts ==
    ASSUME NEW file, IsFile(file), NEW fr \in AnyFragment, fr.cut # "none"
    PROVE  LET new == Appended(file, fr).lines
               p == AppendedTo(file)
           IN  /\ IsFile(Appended(file, fr))
               /\ Len(new) \in Nat /\ Len(file.lines) \in Nat /\ Len(new) >= Len(file.lines)
               /\ p \in 1..Len(new) /\ 1..Len(new) = (1..Len(file.lines)) \cup {p}
               /\ \A i \in 1..Len(file.lines) : i # p => new[i] = file.lines[i]
               /\ new[p] = IF file.open THEN Append(file.lines[p], fr) ELSE <<fr>>
               /\ ~file.open => p \notin 1..Len(file.lines)
<1> DEFINE new == Appended(file, fr).lines
           p == AppendedTo(file)
<1>1. /\ file.lines \in Seq(Seq(AnyFragment)) /\ Len(file.lines) \in Nat
      /\ file.open \in BOOLEAN /\ (file.open => Len(file.lines) > 0)
      /\ \A i \in 1..Len(file.lines) : file.lines[i] \in Seq(AnyFragment)
  BY DEF IsFile
<1>2. /\ new = IF file.open
               THEN [file.lines EXCEPT ![Len(file.lines)] = Append(@, fr)]
               ELSE Append(file.lines, <<fr>>)
      /\ Appended(file, fr).open \in BOOLEAN
      /\ Appended(file, fr) = [lines |-> Appended(file, fr).lines,
                               open |-> Appended(file, fr).open,
                               garbled |-> Appended(file, fr).garbled]
  BY DEF Appended
<1>3. CASE file.open
  <2>1. Append(file.lines[Len(file.lines)], fr) \in Seq(AnyFragment)
    BY <1>1, <1>3
  <2>2. /\ new \in Seq(Seq(AnyFragment)) /\ Len(new) = Len(file.lines)
        /\ \A i \in 1..Len(file.lines) :
              new[i] = IF i = p THEN Append(file.lines[p], fr) ELSE file.lines[i]
    BY <1>1, <1>2, <1>3, <2>1, ExceptSeq DEF AppendedTo
  <2> QED BY <1>1, <1>2, <1>3, <2>2 DEF IsFile, AppendedTo
<1>4. CASE ~file.open
  <2>1. <<fr>> \in Seq(AnyFragment)
    OBVIOUS
  <2>2. /\ new \in Seq(Seq(AnyFragment)) /\ Len(new) = Len(file.lines) + 1
        /\ new[p] = <<fr>> /\ \A i \in 1..Len(file.lines) : new[i] = file.lines[i]
    BY <1>1, <1>2, <1>4, <2>1, AppendProperties DEF AppendedTo
  <2> QED BY <1>1, <1>2, <1>4, <2>2 DEF IsFile, AppendedTo
<1> QED BY <1>1, <1>3, <1>4

LEMMA AppendedIsFile ==
    ASSUME NEW file, IsFile(file), NEW fr \in AnyFragment
    PROVE  IsFile(Appended(file, fr))
<1>1. CASE fr.cut = "none"
  BY <1>1 DEF Appended
<1> QED BY <1>1, AppendedFacts

\* The text of a document shows the key it brings, or that of the block.
LEMMA KeysAreOwn ==
    ASSUME StoreTypes, NEW d \in Docs, NEW own \in Brings, NEW cut
    PROVE  /\ ShownUpTo(d, own, cut) \subseteq KeysShown(d, own)
           /\ KeysShown(d, own) \in SUBSET AnyKey
           /\ \A k \in KeysShown(d, own) : own = NoKey => k = EnvKey /\ EnvKey # NoKey
<1>1. ShownUpTo(d, own, cut) \subseteq KeysShown(d, own)
  BY DEF ShownUpTo
<1>2. EnvKey # NoKey => EnvKey \in Nat \X Range(BlockKeys)
  BY StoresAssumption DEF EnvKey, StoreTypes, Range
<1>3. own # NoKey => own \in AnyKey
  <2>1. \A l \in Range(coll.lines) : Range(l) \subseteq AnyFragment
    BY DEF StoreTypes, IsFile, Range
  <2>2. KeysRead(coll) \subseteq AnyKey
    BY <2>1 DEF KeysRead, AnyFragment
  <2> QED BY <2>2 DEF Brings, AnyKey
<1>4. KeysShown(d, own) \in SUBSET AnyKey
  BY <1>2, <1>3 DEF KeysShown, AnyKey
<1>5. \A k \in KeysShown(d, own) : own = NoKey => k = EnvKey /\ EnvKey # NoKey
  BY DEF KeysShown
<1> QED BY <1>1, <1>4, <1>5

\* An append of text with such keys, made when the key of the block is not
\* there yet, keeps each key in one place.
LEMMA AppendKeepsKeysOnce ==
    ASSUME StoreInv, NEW fr \in AnyFragment, MayAppend, coll' = Appended(coll, fr),
           \A k \in fr.keys : ~fr.brought => k = EnvKey /\ EnvKey # NoKey
    PROVE  KeyStoredOnce'
<1>1. CASE fr.cut = "none"
  BY <1>1 DEF Appended, StoreInv, KeyStoredOnce, Places, TextAt
<1>2. CASE fr.cut # "none"
  <2> DEFINE old == coll.lines
             new == coll'.lines
             p == AppendedTo(coll)
  <2>1. IsFile(coll)
    BY DEF StoreInv, StoreTypes
  <2>2. /\ Len(new) \in Nat /\ Len(old) \in Nat /\ p \in 1..Len(new)
        /\ 1..Len(new) = (1..Len(old)) \cup {p}
        /\ \A i \in 1..Len(old) : i # p => new[i] = old[i]
        /\ new[p] = IF coll.open THEN Append(old[p], fr) ELSE <<fr>>
        /\ ~coll.open => p \notin 1..Len(old)
        /\ IsFile(coll')
    BY <1>2, <2>1, AppendedFacts
  <2>3. old \in Seq(Seq(AnyFragment)) /\ new \in Seq(Seq(AnyFragment))
    BY <2>1, <2>2 DEF IsFile
  <2> DEFINE q == IF coll.open THEN Len(old[p]) + 1 ELSE 1
  <2>4. coll.open => p \in 1..Len(old) /\ old[p] \in Seq(AnyFragment)
    BY <2>1, <2>2, <2>3 DEF AppendedTo, IsFile
  <2> HIDE DEF p
  <2>5. /\ q \in Nat /\ new[p][q] = fr
        /\ DOMAIN new[p] = (IF coll.open THEN DOMAIN old[p] ELSE {}) \cup {q}
        /\ coll.open => \A m \in DOMAIN old[p] : m # q /\ new[p][m] = old[p][m]
    <3>1. CASE coll.open
      <4> DEFINE l == old[p]
      <4>1. l \in Seq(AnyFragment) /\ new[p] = Append(l, fr) /\ q = Len(l) + 1
        BY <2>2, <2>4, <3>1
      <4> HIDE DEF l, q
      <4>2. /\ Len(l) \in Nat /\ DOMAIN l = 1..Len(l)
            /\ DOMAIN Append(l, fr) = 1..(Len(l) + 1)
            /\ \A m \in 1..Len(l) : Append(l, fr)[m] = l[m]
            /\ Append(l, fr)[Len(l) + 1] = fr
        BY <4>1
      <4> QED BY <3>1, <4>1, <4>2 DEF l
    <3>2. CASE ~coll.open
      BY <2>2, <3>2
    <3> QED BY <3>1, <3>2
  <2> HIDE DEF q
  <2>6. \A i \in 1..Len(new) : \A m \in DOMAIN new[i] :
            \/ i = p /\ m = q
            \/ i \in 1..Len(old) /\ m \in DOMAIN old[i] /\ new[i][m] = old[i][m]
    <3> TAKE i \in 1..Len(new)
    <3>1. CASE i = p
      BY <2>2, <2>4, <2>5, <3>1
    <3>2. CASE i # p
      BY <2>2, <3>2
    <3> QED BY <3>1, <3>2
  <2>7. DOMAIN old = 1..Len(old) /\ DOMAIN new = 1..Len(new)
    BY <2>3
  <2>8. EnvKey # NoKey =>
          \A i \in 1..Len(old) : \A m \in DOMAIN old[i] : EnvKey \notin old[i][m].keys
    BY <2>7 DEF MayAppend, HasKey, Range
  <2>9. KeyStoredOnce
    BY DEF StoreInv
  <2> SUFFICES ASSUME NEW k \in EnvKeys, NEW x \in Places(k)', NEW y \in Places(k)',
                      ~TextAt(x)'.brought, ~TextAt(y)'.brought
               PROVE  x = y
    BY DEF KeyStoredOnce, EnvKeys
  <2>10a. PICK i \in 1..Len(new) :
             \E m \in DOMAIN new[i] : x = <<i, m>> /\ k \in new[i][m].keys
    BY <2>7 DEF Places
  <2>10. PICK m \in DOMAIN new[i] : x = <<i, m>> /\ k \in new[i][m].keys
    BY <2>10a
  <2>11a. PICK j \in 1..Len(new) :
             \E n \in DOMAIN new[j] : y = <<j, n>> /\ k \in new[j][n].keys
    BY <2>7 DEF Places
  <2>11. PICK n \in DOMAIN new[j] : y = <<j, n>> /\ k \in new[j][n].keys
    BY <2>11a
  <2>12. ~new[i][m].brought /\ ~new[j][n].brought
    BY <2>10, <2>11 DEF TextAt
  <2>13. CASE k \in fr.keys /\ ~fr.brought
    <3>1. k = EnvKey /\ EnvKey # NoKey
      BY <2>13
    <3> QED BY <2>6, <2>8, <2>10, <2>11, <3>1
  <2>14. CASE ~(k \in fr.keys /\ ~fr.brought)
    <3>1. ~(i = p /\ m = q) /\ ~(j = p /\ n = q)
      BY <2>5, <2>10, <2>11, <2>12, <2>14
    <3>2. /\ i \in DOMAIN old /\ m \in DOMAIN old[i] /\ old[i][m] = new[i][m]
          /\ j \in DOMAIN old /\ n \in DOMAIN old[j] /\ old[j][n] = new[j][n]
      BY <2>6, <2>7, <2>10, <2>11, <3>1
    <3>3. x \in Places(k) /\ y \in Places(k)
      BY <2>10, <2>11, <3>2 DEF Places
    <3>4. ~TextAt(x).brought /\ ~TextAt(y).brought
      BY <2>10, <2>11, <2>12, <3>2 DEF TextAt
    <3> QED BY <2>9, <3>3, <3>4 DEF KeyStoredOnce
  <2> QED BY <2>13, <2>14
<1> QED BY <1>1, <1>2

LEMMA StoreInit == BackInit => StoreInv
BY DEF BackInit, StoresInit, StoreInv, StoreTypes, KeyStoredOnce, Places, IsFile, EmptyFile

\* What a step does to the files: each is as it was or has had a text appended.
CollStep ==
    \E d \in Docs, own \in Brings, cut \in Cuts \cup {"full"} :
    \E keys \in {KeysShown(d, own), ShownUpTo(d, own, cut)} :
        MayAppend /\ coll' = Appended(coll, Fragment(d, keys, own # NoKey, cut))
QueueStep ==
    \E m \in Msgs, cut \in Cuts \cup {"full"} : queue' = Appended(queue, Fragment(m, {}, FALSE, cut))

LEMMA StoreStepCases ==
    ASSUME StoreTypes, [BackNext]_backVars
    PROVE  /\ coll' = coll \/ (CollStep /\ UNCHANGED <<run, block>>)
           /\ queue' = queue \/ QueueStep
           /\ run' \in Nat /\ block' \in 0..Len(BlockKeys)
<1> USE DEF StoreTypes
<1>0. Len(BlockKeys) \in Nat
  BY StoresAssumption
<1>1. CASE UNCHANGED storeVars
  BY <1>1 DEF storeVars
<1>2. CASE \E d \in Docs, own \in Brings : MongoWrite(d, own)
  <2>1. PICK d \in Docs, own \in Brings : WriteDuplicate(d) \/ WriteDoc(d, own)
    BY <1>2 DEF MongoWrite
  <2> QED BY <2>1 DEF WriteDuplicate, WriteDoc, CollStep
<1>3. CASE \E d \in Docs, own \in Brings, c \in Cuts, w \in Errors : MongoWriteFails(d, own, c, w)
  BY <1>3 DEF MongoWriteFails, WriteDocFails, CollStep
<1>4. CASE \E m \in Msgs : RabbitPublish(m)
  BY <1>4 DEF RabbitPublish, Publish, QueueStep
<1>5. CASE \E m \in Msgs, c \in Cuts, w \in Errors : RabbitPublishFails(m, c, w)
  BY <1>5 DEF RabbitPublishFails, PublishFails, QueueStep
<1>6. CASE MinioMb \/ (\E o \in Objects : MinioPut(o))
           \/ (\E o \in Objects, w \in Errors : MinioPutFails(o, w))
  BY <1>6 DEF MinioMb, MinioPut, MinioPutFails, Put, MakeBucket
<1>7. CASE EnterBlock \/ Die
  BY <1>0, <1>7 DEF EnterBlock, Die, NextBlock, Crash
<1>8. CASE UNCHANGED backVars
  BY <1>1, <1>8 DEF backVars
<1> QED BY <1>1, <1>2, <1>3, <1>4, <1>5, <1>6, <1>7, <1>8
    DEF BackNext, Load, MockCall, LoadedCall, RealCall, MongoUnreadable, MongoRead,
        RabbitSubscribe, MinioGet, MinioLook

LEMMA StoreStep ==
    ASSUME StoreInv, [BackNext]_backVars
    PROVE  StoreInv'
<1> USE DEF StoreInv
<1>1. /\ coll' = coll \/ (CollStep /\ UNCHANGED <<run, block>>)
      /\ queue' = queue \/ QueueStep
      /\ run' \in Nat /\ block' \in 0..Len(BlockKeys)
  BY StoreStepCases
<1>2. IsFile(queue')
  <2>1. CASE queue' = queue
    BY <2>1 DEF StoreTypes
  <2>2. CASE QueueStep
    <3>1. PICK m \in Msgs, cut \in Cuts \cup {"full"} :
                queue' = Appended(queue, Fragment(m, {}, FALSE, cut))
      BY <2>2 DEF QueueStep
    <3>2. Fragment(m, {}, FALSE, cut) \in AnyFragment
      BY DEF Fragment, AnyFragment
    <3> QED BY <3>1, <3>2, AppendedIsFile DEF StoreTypes
  <2> QED BY <1>1, <2>1, <2>2
<1>3. IsFile(coll') /\ KeyStoredOnce'
  <2>1. CASE coll' = coll
    BY <2>1 DEF StoreTypes, KeyStoredOnce, Places, TextAt
  <2>2. CASE CollStep
    <3>1. PICK d \in Docs, own \in Brings, cut \in Cuts \cup {"full"} :
              \E keys \in {KeysShown(d, own), ShownUpTo(d, own, cut)} :
                  MayAppend /\ coll' = Appended(coll, Fragment(d, keys, own # NoKey, cut))
      BY <2>2 DEF CollStep
    <3>2. PICK keys \in {KeysShown(d, own), ShownUpTo(d, own, cut)} :
              MayAppend /\ coll' = Appended(coll, Fragment(d, keys, own # NoKey, cut))
      BY <3>1
    <3>3. /\ keys \in SUBSET AnyKey
          /\ \A k \in keys : own = NoKey => k = EnvKey /\ EnvKey # NoKey
      BY KeysAreOwn
    <3> DEFINE fr == Fragment(d, keys, own # NoKey, cut)
    <3>4. fr \in AnyFragment /\ fr.keys = keys /\ (~fr.brought => own = NoKey)
      BY <3>3 DEF Fragment, AnyFragment
    <3>5. coll' = Appended(coll, fr) /\ MayAppend
      BY <3>2
    <3> HIDE DEF fr
    <3>6. \A k \in fr.keys : ~fr.brought => k = EnvKey /\ EnvKey # NoKey
      BY <3>3, <3>4
    <3>7. IsFile(coll')
      BY <3>4, <3>5, AppendedIsFile DEF StoreTypes
    <3>8. KeyStoredOnce'
      BY <3>4, <3>5, <3>6, AppendKeepsKeysOnce
    <3> QED BY <3>7, <3>8
  <2> QED BY <1>1, <2>1, <2>2
<1> QED BY <1>1, <1>2, <1>3 DEF StoreTypes

\* The store puts a key into one text of the collection, whatever documents are
\* written and whatever keys they bring, those of other blocks included, however
\* often writes fail half-way and wherever the program dies.
THEOREM KeysAreStoredOnce == BackSpec => []KeyStoredOnce
<1>1. StoreInv => KeyStoredOnce
  BY DEF StoreInv
<1> QED BY <1>1, StoreInit, StoreStep, PTL DEF BackSpec

\* What an append does to the messages of a file.
LEMMA AppendKeepsMessages ==
    ASSUME NEW file, IsFile(file), NEW fr \in AnyFragment
    PROVE  LET was == Messages(file)
               is == Messages(Appended(file, fr))
           IN  /\ Len(is) >= Len(was)
               /\ \A i \in DOMAIN was : is[i] = was[i] \/ (i = Len(was) /\ file.open)
<1>1. \A f : IsFile(f) => Messages(f) = [i \in 1..Len(f.lines) |-> Messages(f)[i]]
                          /\ Len(f.lines) \in Nat
  BY DEF IsFile, Messages
<1>2. \A f : IsFile(f) => Len(Messages(f)) = Len(f.lines) /\ DOMAIN Messages(f) = 1..Len(f.lines)
  BY <1>1
<1>3. CASE fr.cut = "none"
  BY <1>1, <1>2, <1>3 DEF Appended
<1>4. CASE fr.cut # "none"
  <2> DEFINE new == Appended(file, fr)
  <2>1. /\ IsFile(new) /\ Len(new.lines) >= Len(file.lines)
        /\ 1..Len(new.lines) = (1..Len(file.lines)) \cup {AppendedTo(file)}
        /\ \A i \in 1..Len(file.lines) : i # AppendedTo(file) => new.lines[i] = file.lines[i]
        /\ ~file.open => AppendedTo(file) \notin 1..Len(file.lines)
    BY <1>4, AppendedFacts
  <2> HIDE DEF new
  <2>2. \A i \in 1..Len(file.lines) :
            i # AppendedTo(file) => Messages(new)[i] = Messages(file)[i]
    BY <1>1, <2>1 DEF Messages, IsFile
  <2>3. \A i \in 1..Len(file.lines) : i = AppendedTo(file) => i = Len(file.lines) /\ file.open
    BY <2>1 DEF AppendedTo
  <2> QED BY <1>2, <2>1, <2>2, <2>3 DEF new
<1> QED BY <1>3, <1>4

\* The queue never loses or changes a message, save that the last may be
\* continued while its line is open.
THEOREM MessagesStay == BackSpec => MessagesStayPut
<1> DEFINE Stays ==
        LET was == Messages(queue)
            is == Messages(queue')
        IN  /\ Len(is) >= Len(was)
            /\ \A i \in DOMAIN was : is[i] = was[i] \/ (i = Len(was) /\ queue.open)
<1>1. StoreInv /\ [BackNext]_backVars => Stays
  <2> SUFFICES ASSUME StoreInv, [BackNext]_backVars PROVE Stays
    OBVIOUS
  <2>1. IsFile(queue) /\ (queue' = queue \/ QueueStep)
    BY StoreStepCases DEF StoreInv, StoreTypes
  <2>2. CASE queue' = queue
    <3>1. Len(Messages(queue)) \in Nat
      BY <2>1 DEF IsFile, Messages
    <3> QED BY <2>2, <3>1
  <2>3. CASE QueueStep
    <3>1. PICK m \in Msgs, cut \in Cuts \cup {"full"} :
                queue' = Appended(queue, Fragment(m, {}, FALSE, cut))
      BY <2>3 DEF QueueStep
    <3>2. Fragment(m, {}, FALSE, cut) \in AnyFragment
      BY DEF Fragment, AnyFragment
    <3> QED BY <2>1, <3>1, <3>2, AppendKeepsMessages
  <2> QED BY <2>1, <2>2, <2>3
<1> QED BY <1>1, StoreInit, StoreStep, PTL DEF BackSpec, MessagesStayPut

\* The lines a read takes.
Good(lines) == Selected(lines, {i \in DOMAIN lines : Decodes(lines[i])})
Line == Seq(AnyFragment)

LEMMA GoodAppend ==
    ASSUME NEW lines \in Seq(Line), NEW l \in Line
    PROVE  /\ Good(Append(lines, l)) = IF Decodes(l) THEN Append(Good(lines), l) ELSE Good(lines)
           /\ Good(lines) \in Seq(Line) /\ Len(Good(lines)) \in Nat
           /\ Len(Append(Good(lines), l)) = Len(Good(lines)) + 1
<1> DEFINE more == Append(lines, l)
           n == Len(lines)
           P == {i \in DOMAIN lines : Decodes(lines[i])}
           Q == {i \in DOMAIN more : Decodes(more[i])}
<1>1. /\ n \in Nat /\ DOMAIN lines = 1..n
      /\ more \in Seq(Line) /\ Len(more) = n + 1 /\ more[n + 1] = l
      /\ \A i \in 1..n : more[i] = lines[i]
  BY AppendProperties, LenProperties
<1>2. DOMAIN more = 1..(n + 1)
  <2> HIDE DEF more
  <2> QED BY <1>1, LenProperties
<1>3. Good(more) = Selected(more, Q) /\ Good(lines) = Selected(lines, P)
  BY DEF Good
<1>4. \A k \in 1..Len(lines) : k \in Q <=> k \in P
  <2> HIDE DEF more
  <2>1. \A k \in 1..n : k \in 1..(n + 1)
    BY <1>1
  <2> QED BY <1>1, <1>2, <2>1
<1>5. n + 1 \in Q <=> Decodes(l)
  <2>1. n + 1 \in 1..(n + 1)
    BY <1>1
  <2> HIDE DEF more, n
  <2> QED BY <1>1, <1>2, <2>1
<1> HIDE DEF P, Q
<1>6. Selected(more, Q) = IF Len(lines) + 1 \in Q THEN Append(Selected(lines, P), l) ELSE Selected(lines, P)
  BY <1>4, SelectedOneMore
<1>7. Good(lines) \in Seq(Line)
  BY <1>3, SelectedTyped
<1>8. Len(Good(lines)) \in Nat /\ Len(Append(Good(lines), l)) = Len(Good(lines)) + 1
  BY <1>7, AppendProperties, LenProperties
<1> QED BY <1>3, <1>5, <1>6, <1>7, <1>8

\* The last line of a file that has one.
LastLine(file) == file.lines[Len(file.lines)]

LEMMA AppendedGood ==
    ASSUME NEW file, IsFile(file), file.open => LastLine(file) # <<>>,
           NEW fr \in AnyFragment, fr.cut # "none"
    PROVE  LET new == Appended(file, fr)
           IN  /\ Len(Good(file.lines)) \in Nat /\ Len(Good(new.lines)) \in Nat
               /\ new.open = (fr.cut # "full") /\ LastLine(new) # <<>>
               /\ file.open =>
                     /\ Len(Good(new.lines)) = Len(Good(file.lines)) - (IF Decodes(LastLine(file)) THEN 1 ELSE 0)
                     /\ ~Decodes(LastLine(new))
               /\ ~file.open =>
                     /\ Decodes(LastLine(new)) <=> Complete(fr)
                     /\ Good(new.lines) = IF Complete(fr)
                                          THEN Append(Good(file.lines), <<fr>>) ELSE Good(file.lines)
                     /\ Len(Good(new.lines)) = Len(Good(file.lines))
                                                + (IF Complete(fr) THEN 1 ELSE 0)
<1> DEFINE new == Appended(file, fr)
           lines == file.lines
<1>1. lines \in Seq(Line) /\ file.open \in BOOLEAN
  BY DEF IsFile, Line
<1>2. /\ new.lines = IF file.open THEN [lines EXCEPT ![Len(lines)] = Append(@, fr)]
                     ELSE Append(lines, <<fr>>)
      /\ new.open = (fr.cut # "full")
  BY DEF Appended
<1> HIDE DEF new
<1>3. CASE file.open
  <2> DEFINE front == Popped(lines)
             last == LastLine(file)
             longer == Append(last, fr)
  <2>1. lines # <<>> /\ last # <<>>
    BY <1>3 DEF IsFile
  <2>2. front \in Seq(Line) /\ last \in Line /\ lines = Append(front, last)
    BY <1>1, <2>1, LastApart DEF LastLine
  <2> HIDE DEF front, last, lines
  <2>3. longer \in Line /\ Len(longer) >= 2 /\ longer # <<>>
    <3>1. Len(last) \in Nat /\ Len(last) # 0
      BY <2>1, <2>2, EmptySeq, LenProperties DEF Line
    <3>2. longer \in Line /\ Len(longer) = Len(last) + 1 /\ longer # <<>>
      BY <2>2, AppendProperties DEF Line
    <3> QED BY <3>1, <3>2
  <2>4. new.lines = Append(front, longer)
    <3> DEFINE m == Len(front)
               x == [lines EXCEPT ![Len(lines)] = Append(@, fr)]
               y == Append(front, longer)
    <3>1. /\ m \in Nat /\ Len(lines) = m + 1 /\ lines[m + 1] = last
          /\ \A i \in 1..m : lines[i] = front[i]
          /\ y \in Seq(Line) /\ Len(y) = m + 1 /\ y[m + 1] = longer
          /\ \A i \in 1..m : y[i] = front[i]
      BY <2>2, <2>3, AppendProperties, LenProperties
    <3>2. m + 1 \in 1..Len(lines)
      BY <3>1
    <3>3. x = [lines EXCEPT ![m + 1] = longer]
      BY <3>1
    <3>4. /\ x \in Seq(Line) /\ Len(x) = m + 1
          /\ \A i \in 1..(m + 1) : x[i] = IF i = m + 1 THEN longer ELSE lines[i]
      BY <1>1, <2>3, <3>1, <3>2, <3>3, ExceptSeq
    <3> HIDE DEF x, y, m
    <3>5. \A i \in 1..(m + 1) : i = m + 1 \/ i \in 1..m
      BY <3>1
    <3>6. \A i \in 1..Len(x) : x[i] = y[i]
      BY <3>1, <3>4, <3>5
    <3>7. x = y
      BY <3>1, <3>4, <3>6, SeqEqual
    <3> QED BY <1>2, <1>3, <3>7 DEF x, y
  <2>5. LastLine(new) = longer
    BY <2>2, <2>3, <2>4, AppendProperties, LenProperties DEF LastLine
  <2>6. ~Decodes(longer)
    BY <2>3 DEF Decodes
  <2>7. /\ Len(Good(front)) \in Nat
        /\ Good(Append(front, longer)) = Good(front)
        /\ Good(Append(front, last)) = IF Decodes(last) THEN Append(Good(front), last) ELSE Good(front)
        /\ Len(Append(Good(front), last)) = Len(Good(front)) + 1
    BY <2>2, <2>3, <2>6, GoodAppend
  <2>8. /\ Good(new.lines) = Good(front)
        /\ Good(lines) = IF Decodes(last) THEN Append(Good(front), last) ELSE Good(front)
    BY <2>2, <2>4, <2>7
  <2>9. /\ Len(Good(new.lines)) \in Nat /\ Len(Good(lines)) \in Nat
        /\ Len(Good(new.lines)) = Len(Good(lines)) - (IF Decodes(last) THEN 1 ELSE 0)
    BY <2>7, <2>8
  <2> QED BY <1>2, <1>3, <2>3, <2>5, <2>6, <2>9 DEF new, last, lines
<1>4. CASE ~file.open
  <2>1. <<fr>> \in Line /\ <<fr>> # <<>> /\ (Decodes(<<fr>>) <=> Complete(fr))
    BY DEF Line, Decodes
  <2>2. new.lines = Append(lines, <<fr>>)
    BY <1>2, <1>4
  <2> HIDE DEF lines
  <2>3. LastLine(new) = <<fr>>
    BY <1>1, <2>1, <2>2, AppendProperties, LenProperties DEF LastLine
  <2>4. /\ Good(new.lines) = IF Decodes(<<fr>>) THEN Append(Good(lines), <<fr>>) ELSE Good(lines)
        /\ Len(Good(lines)) \in Nat /\ Len(Append(Good(lines), <<fr>>)) = Len(Good(lines)) + 1
    BY <1>1, <2>1, <2>2, GoodAppend
  <2>5. Len(Good(new.lines)) \in Nat
        /\ Len(Good(new.lines)) = Len(Good(lines)) + (IF Complete(fr) THEN 1 ELSE 0)
    BY <2>1, <2>4
  <2> QED BY <1>2, <1>4, <2>1, <2>3, <2>4, <2>5 DEF new, lines
<1> QED BY <1>1, <1>3, <1>4

Ack == [doc : Docs, key : AnyKey \cup {NoKey}, duplicate : BOOLEAN]

\* How many acknowledged documents the next appends can still cost: the text that
\* continues an open line spoils what is there, and is itself not taken.
Slack(file) == IF file.open THEN IF Decodes(LastLine(file)) THEN 2 ELSE 1 ELSE 0

LossTypes ==
    /\ acked \in Seq(Ack) /\ failed \in [coll : Nat, queue : Nat]
    /\ coll.open => LastLine(coll) # <<>>

Loss ==
    /\ LossTypes
    /\ Len(Stored) - Len(Good(coll.lines)) + Slack(coll) <= failed.coll
    /\ failed.coll = 0 =>
          /\ ~coll.open /\ Len(Good(coll.lines)) = Len(Stored)
          /\ \A i \in 1..Len(Stored) : Good(coll.lines)[i][1].doc = Stored[i].doc

\* What a step does to the collection, to what was acknowledged and to the count
\* of appends that stopped half-way.
Acknowledged(d, duplicate) ==
    acked' = Append(acked, [doc |-> d, key |-> EnvKey, duplicate |-> duplicate])
Unfailed == failed'.coll = failed.coll
Appends(d, own, keys, cut) == coll' = Appended(coll, Fragment(d, keys, own # NoKey, cut))

LEMMA LossSteps ==
    ASSUME LossTypes, [BackNext]_backVars
    PROVE  /\ failed' \in [coll : Nat, queue : Nat]
           /\ \/ coll' = coll /\ acked' = acked /\ Unfailed
              \/ \E d \in Docs : coll' = coll /\ Acknowledged(d, TRUE) /\ Unfailed
              \/ \E d \in Docs, own \in Brings :
                    Appends(d, own, KeysShown(d, own), "full") /\ Acknowledged(d, FALSE) /\ Unfailed
              \/ \E d \in Docs, own \in Brings, cut \in Cuts :
                    /\ Appends(d, own, ShownUpTo(d, own, cut), cut)
                    /\ acked' = acked /\ failed'.coll = failed.coll + 1
<1> USE DEF LossTypes, Unfailed, Acknowledged, Appends
<1>1. CASE UNCHANGED storeVars
  BY <1>1 DEF storeVars
<1>2. CASE \E d \in Docs, own \in Brings : MongoWrite(d, own)
  <2>1. PICK d \in Docs, own \in Brings : WriteDuplicate(d) \/ WriteDoc(d, own)
    BY <1>2 DEF MongoWrite
  <2> QED BY <2>1 DEF WriteDuplicate, WriteDoc
<1>3. CASE \E d \in Docs, own \in Brings, c \in Cuts, w \in Errors : MongoWriteFails(d, own, c, w)
  <2>1. PICK d \in Docs, own \in Brings, c \in Cuts : WriteDocFails(d, own, c)
    BY <1>3 DEF MongoWriteFails
  <2>2. failed' \in [coll : Nat, queue : Nat] /\ failed'.coll = failed.coll + 1
    BY <2>1 DEF WriteDocFails
  <2> QED BY <2>1, <2>2 DEF WriteDocFails
<1>4. CASE \E m \in Msgs : RabbitPublish(m)
  BY <1>4 DEF RabbitPublish, Publish
<1>5. CASE \E m \in Msgs, c \in Cuts, w \in Errors : RabbitPublishFails(m, c, w)
  BY <1>5 DEF RabbitPublishFails, PublishFails
<1>6. CASE MinioMb \/ (\E o \in Objects : MinioPut(o))
           \/ (\E o \in Objects, w \in Errors : MinioPutFails(o, w))
  BY <1>6 DEF MinioMb, MinioPut, MinioPutFails, Put, MakeBucket
<1>7. CASE EnterBlock \/ Die
  BY <1>7 DEF EnterBlock, Die, NextBlock, Crash
<1>8. CASE UNCHANGED backVars
  BY <1>1, <1>8 DEF backVars
<1> QED BY <1>1, <1>2, <1>3, <1>4, <1>5, <1>6, <1>7, <1>8
    DEF BackNext, Load, MockCall, LoadedCall, RealCall, MongoUnreadable, MongoRead,
        RabbitSubscribe, MinioGet, MinioLook

LEMMA EnvKeyTyped ==
    ASSUME StoreTypes
    PROVE  EnvKey \in AnyKey \cup {NoKey}
BY StoresAssumption DEF EnvKey, StoreTypes, AnyKey, Range

LEMMA StoredMore ==
    ASSUME LossTypes, NEW a \in Ack, acked' = Append(acked, a)
    PROVE  /\ acked' \in Seq(Ack)
           /\ Stored \in Seq(Ack) /\ Len(Stored) \in Nat
           /\ Stored' = IF Kept(a) THEN Append(Stored, a) ELSE Stored
           /\ Len(Append(Stored, a)) = Len(Stored) + 1
<1> DEFINE n == Len(acked)
           P == {i \in DOMAIN acked : Kept(acked[i])}
           Q == {i \in DOMAIN acked' : Kept(acked'[i])}
<1>1. /\ acked \in Seq(Ack) /\ n \in Nat /\ DOMAIN acked = 1..n
      /\ acked' \in Seq(Ack) /\ Len(acked') = n + 1 /\ acked'[n + 1] = a
      /\ \A i \in 1..n : acked'[i] = acked[i]
  BY AppendProperties, LenProperties DEF LossTypes
<1>2. DOMAIN acked' = 1..(n + 1)
  BY <1>1, LenProperties
<1>3. Stored' = Selected(acked', Q) /\ Stored = Selected(acked, P)
  BY DEF Stored
<1>4. \A k \in 1..Len(acked) : k \in Q <=> k \in P
  <2>1. \A k \in 1..n : k \in 1..(n + 1)
    BY <1>1
  <2> QED BY <1>1, <1>2, <2>1
<1>5. n + 1 \in Q <=> Kept(a)
  <2>1. n + 1 \in 1..(n + 1)
    BY <1>1
  <2> HIDE DEF n
  <2> QED BY <1>1, <1>2, <2>1
<1> HIDE DEF P, Q
<1>6. Selected(Append(acked, a), Q) =
         IF Len(acked) + 1 \in Q THEN Append(Selected(acked, P), a) ELSE Selected(acked, P)
  BY <1>1, <1>4, SelectedOneMore
<1>7. Stored \in Seq(Ack)
  BY <1>1, <1>3, SelectedTyped
<1>8. Len(Stored) \in Nat /\ Len(Append(Stored, a)) = Len(Stored) + 1
  BY <1>7, AppendProperties, LenProperties
<1> QED BY <1>1, <1>3, <1>5, <1>6, <1>7, <1>8

LEMMA StoredFacts ==
    ASSUME LossTypes, StoreTypes
    PROVE  Len(Stored) \in Nat /\ Len(Good(coll.lines)) \in Nat
<1>1. Stored \in Seq(Ack)
  BY SelectedTyped DEF Stored, LossTypes
<1>2. Good(coll.lines) \in Seq(Line)
  BY SelectedTyped DEF Good, StoreTypes, IsFile, Line
<1> QED BY <1>1, <1>2, LenProperties

LEMMA DocWritten ==
    ASSUME Loss, StoreTypes, NEW d \in Docs, NEW own \in Brings,
           Acknowledged(d, FALSE), Unfailed, Appends(d, own, KeysShown(d, own), "full"),
           failed' \in [coll : Nat, queue : Nat]
    PROVE  Loss'
<1> DEFINE fr == Fragment(d, KeysShown(d, own), own # NoKey, "full")
           a == [doc |-> d, key |-> EnvKey, duplicate |-> FALSE]
           good == Good(coll.lines)
           more == Good(coll'.lines)
<1>1. fr \in AnyFragment /\ fr.cut = "full" /\ fr.doc = d
  <2>1. KeysShown(d, own) \in SUBSET AnyKey
    BY KeysAreOwn
  <2> QED BY <2>1 DEF Fragment, AnyFragment
<1>2. a \in Ack /\ ~a.duplicate /\ a.doc = d /\ acked' = Append(acked, a)
  BY EnvKeyTyped DEF Ack, Acknowledged
<1> HIDE DEF fr, a
<1>3. IsFile(coll) /\ LossTypes /\ coll.open \in BOOLEAN /\ (coll.open => LastLine(coll) # <<>>)
  BY DEF Loss, LossTypes, StoreTypes, IsFile
<1>4. coll' = Appended(coll, fr) /\ fr.cut # "none"
  BY <1>1 DEF fr, Appends
<1>5. /\ Len(good) \in Nat /\ Len(more) \in Nat
      /\ coll'.open = FALSE /\ LastLine(coll') # <<>>
      /\ coll.open => Len(more) = Len(good) - (IF Decodes(LastLine(coll)) THEN 1 ELSE 0)
      /\ ~coll.open => more = IF d \in Skipped THEN good ELSE Append(good, <<fr>>)
      /\ ~coll.open => Len(more) = Len(good) + (IF d \in Skipped THEN 0 ELSE 1)
  <2> DEFINE new == Appended(coll, fr)
  <2>1. /\ Len(Good(coll.lines)) \in Nat /\ Len(Good(new.lines)) \in Nat
        /\ new.open = (fr.cut # "full") /\ LastLine(new) # <<>>
        /\ coll.open =>
              /\ Len(Good(new.lines)) = Len(Good(coll.lines)) - (IF Decodes(LastLine(coll)) THEN 1 ELSE 0)
              /\ ~Decodes(LastLine(new))
        /\ ~coll.open =>
              /\ Good(new.lines) = IF Complete(fr)
                                   THEN Append(Good(coll.lines), <<fr>>) ELSE Good(coll.lines)
              /\ Len(Good(new.lines)) = Len(Good(coll.lines))
                                         + (IF Complete(fr) THEN 1 ELSE 0)
    BY <1>1, <1>3, <1>4, AppendedGood
  <2>2. Complete(fr) <=> d \notin Skipped
    BY <1>1 DEF Complete
  <2> QED BY <1>1, <1>4, <2>1, <2>2
<1>6. /\ acked' \in Seq(Ack) /\ Stored \in Seq(Ack) /\ Len(Stored) \in Nat
      /\ Stored' = IF d \in Skipped THEN Stored ELSE Append(Stored, a)
      /\ Len(Stored') = Len(Stored) + (IF d \in Skipped THEN 0 ELSE 1)
  <2>1. Kept(a) <=> d \notin Skipped
    BY <1>2 DEF Kept
  <2> QED BY <1>2, <1>3, <2>1, StoredMore
<1>7. LossTypes'
  BY <1>5, <1>6 DEF LossTypes
<1>8. Len(Stored') - Len(Good(coll'.lines)) + Slack(coll') <= failed'.coll
  <2>1. Slack(coll') = 0 /\ failed'.coll = failed.coll /\ failed.coll \in Nat
    BY <1>3, <1>5 DEF Slack, Unfailed, LossTypes
  <2>2. Len(Stored) - Len(good) + Slack(coll) <= failed.coll
    BY DEF Loss
  <2> HIDE DEF good, more
  <2>3. Len(Stored') - Len(more) <= failed.coll
    <3>1. CASE coll.open
      <4>1. Slack(coll) = IF Decodes(LastLine(coll)) THEN 2 ELSE 1
        BY <3>1 DEF Slack
      <4> QED BY <1>3, <1>5, <1>6, <2>1, <2>2, <3>1, <4>1
    <3>2. CASE ~coll.open
      <4>1. Slack(coll) = 0
        BY <3>2 DEF Slack
      <4> QED BY <1>3, <1>5, <1>6, <2>1, <2>2, <3>2, <4>1
    <3> QED BY <1>3, <3>1, <3>2
  <2>4. Len(Stored') \in Nat /\ Len(more) \in Nat
    BY <1>5, <1>6
  <2>5. Len(Stored') - Len(more) + Slack(coll') <= failed'.coll
    BY <2>1, <2>3, <2>4
  <2> QED BY <2>5 DEF more
<1>9. ASSUME failed'.coll = 0
      PROVE  /\ ~coll'.open /\ Len(Good(coll'.lines)) = Len(Stored')
             /\ \A i \in 1..Len(Stored') : Good(coll'.lines)[i][1].doc = Stored'[i].doc
  <2>1. /\ ~coll.open /\ Len(good) = Len(Stored)
        /\ \A i \in 1..Len(Stored) : good[i][1].doc = Stored[i].doc
    BY <1>9 DEF Loss, Unfailed
  <2>2. good \in Seq(Line) /\ <<fr>> \in Line
    BY <1>1, <1>3, SelectedTyped DEF Good, IsFile, Line
  <2>0. CASE d \in Skipped
    <3>1. more = good /\ Stored' = Stored /\ ~coll'.open
      BY <1>5, <1>6, <2>0, <2>1
    <3> QED BY <2>1, <3>1
  <2> SUFFICES ASSUME d \notin Skipped
               PROVE  /\ ~coll'.open /\ Len(Good(coll'.lines)) = Len(Stored')
                      /\ \A i \in 1..Len(Stored') : Good(coll'.lines)[i][1].doc = Stored'[i].doc
    BY <2>0
  <2> DEFINE n == Len(Stored)
  <2>3. /\ more[n + 1] = <<fr>> /\ \A i \in 1..n : more[i] = good[i]
        /\ Stored'[n + 1] = a /\ \A i \in 1..n : Stored'[i] = Stored[i]
    <3> HIDE DEF good, more
    <3>1. more = Append(good, <<fr>>) /\ Stored' = Append(Stored, a) /\ Len(good) = n
      BY <1>5, <1>6, <2>1
    <3>2. Stored \in Seq(Ack) /\ a \in Ack
      BY <1>2, <1>6
    <3> QED BY <2>2, <3>1, <3>2, AppendProperties
  <2>4. ASSUME NEW i \in 1..(n + 1) PROVE more[i][1].doc = Stored'[i].doc
    <3> HIDE DEF good, more
    <3>1. CASE i = n + 1
      BY <1>1, <1>2, <2>3, <3>1
    <3>2. CASE i # n + 1
      <4>1. i \in 1..n
        BY <1>6, <3>2
      <4> QED BY <2>1, <2>3, <4>1
    <3> QED BY <3>1, <3>2
  <2> QED BY <1>5, <1>6, <2>1, <2>4
<1> QED BY <1>7, <1>8, <1>9 DEF Loss

LEMMA WriteFailed ==
    ASSUME Loss, StoreTypes, NEW d \in Docs, NEW own \in Brings, NEW cut \in Cuts,
           acked' = acked, Appends(d, own, ShownUpTo(d, own, cut), cut),
           failed' \in [coll : Nat, queue : Nat], failed'.coll = failed.coll + 1
    PROVE  Loss'
<1> DEFINE fr == Fragment(d, ShownUpTo(d, own, cut), own # NoKey, cut)
           good == Good(coll.lines)
           more == Good(coll'.lines)
<1>1. fr \in AnyFragment /\ fr.cut = cut
  <2>1. ShownUpTo(d, own, cut) \in SUBSET AnyKey
    BY KeysAreOwn
  <2> QED BY <2>1 DEF Fragment, AnyFragment
<1>2. IsFile(coll) /\ LossTypes /\ coll.open \in BOOLEAN /\ (coll.open => LastLine(coll) # <<>>)
  BY DEF Loss, LossTypes, StoreTypes, IsFile
<1>3. coll' = Appended(coll, fr)
  BY DEF Appends
<1> HIDE DEF fr
<1>4. Stored' = Stored /\ Len(Stored) \in Nat /\ Len(good) \in Nat
  BY <1>2, StoredFacts DEF Stored
<1>5. failed.coll \in Nat /\ failed'.coll # 0 /\ Len(Stored) - Len(good) + Slack(coll) <= failed.coll
  BY DEF Loss, LossTypes
<1>6. CASE cut = "none"
  <2>1. coll' = coll
    BY <1>1, <1>3, <1>6 DEF Appended
  <2>2. Slack(coll) \in Nat
    BY DEF Slack
  <2>3. Len(Stored') - Len(Good(coll'.lines)) + Slack(coll') <= failed'.coll
    BY <1>4, <1>5, <2>1, <2>2
  <2> QED BY <1>2, <1>5, <2>1, <2>3 DEF Loss, LossTypes
<1>7. CASE cut # "none"
  <2>1. fr.cut # "none" /\ fr.cut # "full"
    BY <1>1, <1>7 DEF Cuts
  <2>2. /\ Len(good) \in Nat /\ Len(more) \in Nat
        /\ coll'.open = TRUE /\ LastLine(coll') # <<>>
        /\ coll.open => /\ Len(more) = Len(good) - (IF Decodes(LastLine(coll)) THEN 1 ELSE 0)
                        /\ ~Decodes(LastLine(coll'))
        /\ ~coll.open => /\ Decodes(LastLine(coll')) <=> Complete(fr)
                         /\ Len(more) = Len(good) + (IF Complete(fr) THEN 1 ELSE 0)
    BY <1>1, <1>2, <1>3, <2>1, AppendedGood
  <2> HIDE DEF good, more
  <2>3. Len(Stored) - Len(more) + Slack(coll') <= failed.coll + 1
    <3>1. CASE coll.open
      BY <1>4, <1>5, <2>2, <3>1 DEF Slack
    <3>2. CASE ~coll.open
      BY <1>4, <1>5, <2>2, <3>2 DEF Slack
    <3> QED BY <1>2, <3>1, <3>2
  <2>4. Len(Stored') - Len(Good(coll'.lines)) + Slack(coll') <= failed'.coll
    BY <1>4, <2>3 DEF more
  <2>5. LossTypes'
    BY <1>2, <2>2 DEF LossTypes
  <2> QED BY <1>5, <2>4, <2>5 DEF Loss
<1> QED BY <1>6, <1>7

LEMMA LossKept == StoreInv /\ Loss /\ [BackNext]_backVars => Loss'
<1> SUFFICES ASSUME StoreInv, Loss, [BackNext]_backVars PROVE Loss'
  OBVIOUS
<1>1. StoreTypes /\ LossTypes
  BY DEF StoreInv, Loss
<1>2. /\ failed' \in [coll : Nat, queue : Nat]
      /\ \/ coll' = coll /\ acked' = acked /\ Unfailed
         \/ \E d \in Docs : coll' = coll /\ Acknowledged(d, TRUE) /\ Unfailed
         \/ \E d \in Docs, own \in Brings :
               Appends(d, own, KeysShown(d, own), "full") /\ Acknowledged(d, FALSE) /\ Unfailed
         \/ \E d \in Docs, own \in Brings, cut \in Cuts :
               /\ Appends(d, own, ShownUpTo(d, own, cut), cut)
               /\ acked' = acked /\ failed'.coll = failed.coll + 1
  BY <1>1, LossSteps
<1>3. CASE coll' = coll /\ acked' = acked /\ Unfailed
  BY <1>2, <1>3 DEF Loss, LossTypes, Unfailed, Stored
<1>4. ASSUME NEW d \in Docs, coll' = coll, Acknowledged(d, TRUE), Unfailed PROVE Loss'
  <2> DEFINE a == [doc |-> d, key |-> EnvKey, duplicate |-> TRUE]
  <2>1. a \in Ack /\ ~Kept(a) /\ acked' = Append(acked, a)
    BY <1>1, <1>4, EnvKeyTyped DEF Ack, Acknowledged, Kept
  <2>2. acked' \in Seq(Ack) /\ Stored' = Stored
    BY <1>1, <2>1, StoredMore
  <2> QED BY <1>2, <1>4, <2>2 DEF Loss, LossTypes, Unfailed
<1>5. ASSUME NEW d \in Docs, NEW own \in Brings, Acknowledged(d, FALSE), Unfailed,
             Appends(d, own, KeysShown(d, own), "full") PROVE Loss'
  BY <1>1, <1>2, <1>5, DocWritten
<1>6. ASSUME NEW d \in Docs, NEW own \in Brings, NEW cut \in Cuts, acked' = acked,
             failed'.coll = failed.coll + 1, Appends(d, own, ShownUpTo(d, own, cut), cut)
      PROVE  Loss'
  BY <1>1, <1>2, <1>6, WriteFailed
<1> QED BY <1>2, <1>3, <1>4, <1>5, <1>6

\* What a read returns of the records that were acknowledged and can be decoded: all
\* of them while no append stopped half-way, and otherwise all but as many as
\* appends did, whatever else stands between them.
THEOREM LossesAreBounded == BackSpec => []LossIsBounded
<1>1. BackInit => Loss
  <2> SUFFICES ASSUME BackInit PROVE Loss
    OBVIOUS
  <2>1. /\ coll = [lines |-> <<>>, open |-> FALSE, garbled |-> FALSE] /\ acked = <<>>
        /\ failed = [coll |-> 0, queue |-> 0]
    BY DEF BackInit, StoresInit, EmptyFile
  <2>2. Stored = <<>> /\ Good(coll.lines) = <<>> /\ Len(<<>>) = 0 /\ <<>> \in Seq(Ack)
    BY <2>1, SelectedEmpty, EmptySeq DEF Stored, Good
  <2>3. Slack(coll) = 0 /\ failed.coll = 0 /\ failed \in [coll : Nat, queue : Nat]
    BY <2>1 DEF Slack
  <2> QED BY <2>1, <2>2, <2>3 DEF Loss, LossTypes
<1>2. StoreInv /\ Loss => LossIsBounded
  <2> SUFFICES ASSUME StoreInv, Loss PROVE LossIsBounded
    OBVIOUS
  <2> DEFINE good == Good(coll.lines)
  <2>1. Len(Stored) \in Nat /\ Len(good) \in Nat /\ Stored \in Seq(Ack) /\ good \in Seq(Line)
    <3>1. Stored \in Seq(Ack)
      BY SelectedTyped DEF Stored, Loss, LossTypes
    <3>2. Good(coll.lines) \in Seq(Line)
      BY SelectedTyped DEF Good, StoreInv, StoreTypes, IsFile, Line
    <3> QED BY <3>1, <3>2, LenProperties
  <2>2. DOMAIN good = 1..Len(good) /\ DOMAIN Stored = 1..Len(Stored)
    BY <2>1, LenProperties
  <2>3. ReadDocs(coll) = [i \in DOMAIN good |-> good[i][1].doc]
    BY DEF ReadDocs, Good
  <2> HIDE DEF good
  <2>4. Len(ReadDocs(coll)) = Len(good)
    BY <2>1, <2>2, <2>3
  <2>5. Slack(coll) \in Nat /\ Len(Stored) - Len(good) + Slack(coll) <= failed.coll
        /\ failed.coll \in Nat
    BY DEF Slack, Loss, LossTypes, good
  <2>6. Len(Stored) - Len(ReadDocs(coll)) <= failed.coll
    BY <2>1, <2>4, <2>5
  <2>7. ASSUME failed.coll = 0
        PROVE  ReadDocs(coll) = [i \in DOMAIN Stored |-> Stored[i].doc]
    <3>1. Len(good) = Len(Stored) /\ \A i \in 1..Len(Stored) : good[i][1].doc = Stored[i].doc
      BY <2>7 DEF Loss, good
    <3> QED BY <2>2, <2>3, <3>1
  <2> QED BY <2>6, <2>7 DEF LossIsBounded
<1> QED BY <1>1, <1>2, LossKept, StoreInit, StoreStep, PTL DEF BackSpec

-----------------------------------------------------------------------------
(* Capabilities as values.                                                 *)

\* Covering is transitive: a cap narrowed twice is narrower than the first.
LEMMA CoversTransitive ==
    ASSUME NEW a, NEW b, NEW c, Covers(a, b), Covers(b, c)
    PROVE  Covers(a, c)
<1>1. ~b.star /\ ~c.star /\ \A e \in Members(c.entries) : EntryCovers(b, e)
  BY DEF Covers
<1>2. CASE a.star
  BY <1>1, <1>2 DEF Covers
<1>3. CASE ~a.star
  <2> SUFFICES ASSUME NEW e \in Members(c.entries) PROVE EntryCovers(a, e)
    BY <1>1 DEF Covers
  <2>1. PICK p \in Members(b.entries) : PathCovers(p.path, e.path) /\ AllowCovers(p.allow, e.allow)
    BY <1>1 DEF EntryCovers
  <2>2. PICK q \in Members(a.entries) : PathCovers(q.path, p.path) /\ AllowCovers(q.allow, p.allow)
    BY <1>3 DEF Covers, EntryCovers
  <2>3. PathCovers(q.path, e.path)
    BY <2>1, <2>2 DEF PathCovers
  <2>4. AllowCovers(q.allow, e.allow)
    BY <2>1, <2>2 DEF AllowCovers
  <2> QED BY <2>3, <2>4 DEF EntryCovers
<1> QED BY <1>2, <1>3

\* What a cap grants, every cap that covers it grants as well.
LEMMA CoveredGrants ==
    ASSUME NEW p, NEW c, IsCap(p), Covers(p, c), NEW module, NEW op, NEW target,
           Grants(c, module, op, target)
    PROVE  Grants(p, module, op, target)
<1>1. CASE p.star
  BY <1>1 DEF Grants
<1>2. CASE ~p.star
  <2>1. PICK e \in Members(c.entries) :
            /\ Names(e, module, op) \/ Wildcard(e, module)
            /\ \/ e.allow.open
               \/ module = "fs" /\ \E g \in Members(e.allow.items) : GlobMatches(g, target)
               \/ module # "fs" /\ target \in Members(e.allow.items)
    BY DEF Covers, Grants
  <2>2. PICK q \in Members(p.entries) : PathCovers(q.path, e.path) /\ AllowCovers(q.allow, e.allow)
    BY <1>2 DEF Covers, EntryCovers
  <2>3. q.path \in Seq(Members(q.path))
    BY DEF IsCap, IsList
  <2>4. Names(q, module, op) \/ Wildcard(q, module)
    <3>1. e.path[1] = module
      BY <2>1 DEF Names, Wildcard
    <3>2. CASE Len(q.path) = 1
      <4>1. q.path[1] = module
        BY <2>2, <3>1, <3>2 DEF PathCovers
      <4> QED BY <2>3, <3>2, <4>1 DEF Names
    <3>3. CASE Len(q.path) # 1
      BY <2>1, <2>2, <3>3 DEF PathCovers, Names, Wildcard
    <3> QED BY <3>2, <3>3
  <2>5. \/ q.allow.open
        \/ ~e.allow.open /\ Members(e.allow.items) \subseteq Members(q.allow.items)
    BY <2>2 DEF AllowCovers
  <2> QED BY <2>1, <2>4, <2>5 DEF Grants
<1> QED BY <1>1, <1>2

LEMMA FirstLeafIsLeaf ==
    ASSUME NEW cap, IsCap(cap), NEW module, NEW op, FirstLeaf(cap, module, op) # 0
    PROVE  /\ FirstLeaf(cap, module, op) \in DOMAIN cap.entries
           /\ LET e == cap.entries[FirstLeaf(cap, module, op)]
              IN  /\ e \in Members(cap.entries) /\ IsAllowList(e.allow.items)
                  /\ Names(e, module, op) \/ Wildcard(e, module)
<1> DEFINE leaf(i) == cap.entries[i].path \in {<<module, op>>, <<module, "*">>}
           M == {i \in DOMAIN cap.entries : leaf(i)}
           first(i) == leaf(i) /\ \A j \in 1..(i - 1) : ~leaf(j)
<1>1. DOMAIN cap.entries = 1..Len(cap.entries) /\ Len(cap.entries) \in Nat
  BY DEF IsCap, IsList
<1>2. M # {}
  BY DEF FirstLeaf
<1>3. PICK i \in M : \A j \in M : i <= j
  <2> HIDE DEF M
  <2> QED BY <1>1, <1>2, LeastPosition DEF M
<1>4. i \in DOMAIN cap.entries /\ first(i)
  <2>1. leaf(i) /\ i \in 1..Len(cap.entries)
    BY <1>1, <1>3
  <2>2. ASSUME NEW j \in 1..(i - 1), leaf(j) PROVE FALSE
    <3>1. j \in M
      BY <1>1, <2>1, <2>2
    <3> QED BY <1>3, <2>1, <2>2, <3>1
  <2> QED BY <1>1, <2>1, <2>2
<1>5. FirstLeaf(cap, module, op) = CHOOSE k \in DOMAIN cap.entries : first(k)
  BY <1>2 DEF FirstLeaf
<1>6. FirstLeaf(cap, module, op) \in DOMAIN cap.entries /\ first(FirstLeaf(cap, module, op))
  <2> HIDE DEF first
  <2> QED BY <1>4, <1>5
<1>7. cap.entries[FirstLeaf(cap, module, op)].path \in {<<module, op>>, <<module, "*">>}
  BY <1>6
<1>8. cap.entries[FirstLeaf(cap, module, op)] \in Members(cap.entries)
  BY <1>6 DEF Members
<1> QED BY <1>6, <1>7, <1>8 DEF Names, Wildcard, IsCap

-----------------------------------------------------------------------------
(* The steps of the handlers.                                              *)

EffectKinds == {"do", "act", "send", "ask", "stages"}
Fallible == {"send", "ask"}    \* whose failure is the Err value of the call

\* Every sequence of steps that a handler goes through.
StepLists ==
    { <<>>, <<"event">>, <<"do", "event">>, <<"act", "event">>, <<"event", "do">>,
      <<"decode", "event">>, <<"act", "decode", "event">>, <<"late", "send", "event">>,
      <<"stages", "event">>, <<"act", "event", "again">>, <<"late", "act", "event", "decode">>,
      <<"late", "event">>, <<"late", "event", "send">>, <<"late", "act", "event">>,
      <<"ask", "event">>, <<"act", "event", "again", "decode">>,
      <<"act", "event", "decode">> }

LEMMA StepsAreListed ==
    ASSUME NEW module, NEW op
    PROVE  Steps(module, op) \in StepLists
<1>1. /\ AuditSteps \in StepLists /\ DockerSteps \in StepLists /\ KubeSteps(op) \in StepLists
      /\ MongoSteps \in StepLists /\ MinioSteps \in StepLists /\ RabbitSteps \in StepLists
  <2>1. \A m \in L2Modules : Backend[m] \in {"mock", "real", "loaded"}
    BY BackendAssumption
  <2>2. AuditSteps \in StepLists
    BY DEF AuditSteps, LoadedSteps, StepLists
  <2>3. DockerSteps \in StepLists
    BY <2>1 DEF DockerSteps, LoadedSteps, RealDockerSteps, MockSteps, StepLists, L2Modules
  <2>4. KubeSteps(op) \in StepLists
    BY <2>1 DEF KubeSteps, LoadedSteps, RealKubeSteps, MockSteps, StepLists, L2Modules
  <2>5. \A m \in L2Modules : StoreSteps(m) \in StepLists
    BY <2>1 DEF StoreSteps, LoadedSteps, MockSteps, StepLists
  <2> QED BY <2>2, <2>3, <2>4, <2>5 DEF MongoSteps, MinioSteps, RabbitSteps, L2Modules
<1>2. /\ EnvSteps(op) \in StepLists /\ FsSteps(op) \in StepLists /\ AiSteps(op) \in StepLists
      /\ ShellSteps(op) \in StepLists
  <2>1. EnvSteps(op) \in StepLists
    BY DEF EnvSteps, StepLists
  <2>2. FsSteps(op) \in StepLists
    BY DEF FsSteps, ReadTextSteps, ExistsSteps, FsReadSteps, WriteTextSteps, WriteBytesSteps,
           FsTreeSteps, StepLists
  <2>3. AiSteps(op) \in StepLists
    BY DEF AiSteps, ModelSteps, ChatDirSteps, EmbedSteps, ToolsSteps, SessionSteps, AskSteps,
           DecideSteps, UsageSteps, NetworkRunSteps, ChatAskSteps, AgentSteps, JudgeSteps,
           StepLists
  <2>4. ShellSteps(op) \in StepLists
    BY DEF ShellSteps, ExecSteps, PipeSteps, StepLists
  <2> QED BY <2>1, <2>2, <2>3, <2>4
<1>3. /\ ReadLineSteps \in StepLists /\ PrintSteps \in StepLists /\ SleepSteps \in StepLists
      /\ NowSteps \in StepLists /\ RandomSteps \in StepLists /\ DateNowSteps \in StepLists
      /\ HttpSteps \in StepLists /\ YamlFileSteps \in StepLists /\ NetSteps \in StepLists
      /\ <<>> \in StepLists
  BY DEF ReadLineSteps, PrintSteps, SleepSteps, NowSteps, RandomSteps, DateNowSteps, HttpSteps,
         YamlFileSteps, NetSteps, StepLists
<1> QED BY <1>1, <1>2, <1>3 DEF Steps

\* What is so of each of them: an effect has an event, and one whose failure is an
\* Err value is the only effect of its handler, which does not repeat it.
LEMMA StepFacts ==
    ASSUME NEW module, NEW op
    PROVE  LET s == Steps(module, op)
           IN  /\ Len(s) \in Nat /\ DOMAIN s = 1..Len(s)
               /\ (\E i \in 1..Len(s) : s[i] \in EffectKinds \cup {"again"})
                    => \E i \in 1..Len(s) : s[i] = "event"
               /\ \A i, j \in 1..Len(s) :
                    s[i] \in Fallible /\ s[j] \in EffectKinds \cup {"again"} => i = j
<1> SUFFICES ASSUME NEW s \in StepLists
             PROVE  /\ Len(s) \in Nat /\ DOMAIN s = 1..Len(s)
                    /\ (\E i \in 1..Len(s) : s[i] \in EffectKinds \cup {"again"})
                          => \E i \in 1..Len(s) : s[i] = "event"
                    /\ \A i, j \in 1..Len(s) :
                         s[i] \in Fallible /\ s[j] \in EffectKinds \cup {"again"} => i = j
  BY StepsAreListed
<1> USE DEF EffectKinds, Fallible
<1>1. CASE s \in {<<>>, <<"event">>}
  BY <1>1
<1>2. CASE s \in {<<"do", "event">>, <<"act", "event">>, <<"event", "do">>, <<"decode", "event">>,
                  <<"stages", "event">>, <<"late", "event">>, <<"ask", "event">>}
  BY <1>2
<1>3. CASE s \in {<<"act", "decode", "event">>, <<"late", "act", "event">>,
                  <<"act", "event", "again">>, <<"act", "event", "decode">>}
  BY <1>3
<1>4. CASE s \in {<<"late", "send", "event">>, <<"late", "event", "send">>}
  BY <1>4
<1>5. CASE s \in {<<"late", "act", "event", "decode">>, <<"act", "event", "again", "decode">>}
  BY <1>5
<1> QED BY <1>1, <1>2, <1>3, <1>4, <1>5 DEF StepLists

-----------------------------------------------------------------------------
(* What a cap permits, it grants.                                          *)

\* The checks read a cap the way its entries are meant, save those of the
\* families that look at no allow-list.
LEMMA PermittedIsGranted ==
    ASSUME NEW cap, IsCap(cap), NEW module, NEW op, NEW target,
           Guard(module) \in {"path", "host", "argv", "bucket"},
           Permits(cap, module, op, target)
    PROVE  Grants(cap, module, op, target)
<1>1. CASE Guard(module) = "path"
  <2>1. module = "fs"
    BY <1>1 DEF Guard
  <2> QED BY <1>1, <2>1 DEF Permits, PathPermits, Grants
<1>2. CASE Guard(module) \in {"host", "argv"}
  <2>1. module # "fs"
    BY <1>2 DEF Guard
  <2> QED BY <1>2, <2>1 DEF Permits, HostPermits, ArgvPermits, Grants
<1>3. CASE Guard(module) = "bucket"
  <2>1. module # "fs"
    BY <1>3 DEF Guard
  <2>2. BucketPermits(cap, module, op, target)
    BY <1>3 DEF Permits
  <2> QED BY <2>1, <2>2, FirstLeafIsLeaf DEF BucketPermits, Grants
<1> QED BY <1>1, <1>2, <1>3

\* The model that a call is sent to is prescribed by an entry of the cap.
LEMMA ModelIsGranted ==
    ASSUME NEW cap, IsCap(cap), NEW op, AiPermits(cap, op)
    PROVE  /\ AiModel(cap, op) \in {NoModel, <<"mock">>} \/ Grants(cap, "ai", op, AiModel(cap, op))
           /\ cap.star \/ AiModel(cap, op) # NoModel
<1>1. CASE cap.star
  BY <1>1 DEF AiModel
<1>2. CASE ~cap.star
  <2> DEFINE e == cap.entries[FirstLeaf(cap, "ai", op)]
  <2>1. /\ e \in Members(cap.entries) /\ IsAllowList(e.allow.items)
        /\ Names(e, "ai", op) \/ Wildcard(e, "ai")
    BY <1>2, FirstLeafIsLeaf DEF AiPermits
  <2>2. e.allow.items \in Seq(Members(e.allow.items)) /\ NoModel \notin Members(e.allow.items)
    BY <2>1 DEF IsAllowList, IsList
  <2>3. CASE e.allow.open \/ e.allow.items = <<>>
    BY <1>2, <2>3 DEF AiModel, NoModel
  <2>4. CASE ~e.allow.open /\ e.allow.items # <<>>
    <3>1. AiModel(cap, op) = e.allow.items[1]
      BY <1>2, <2>4 DEF AiModel
    <3>2. 1 \in DOMAIN e.allow.items
      BY <2>2, <2>4
    <3>3. AiModel(cap, op) \in Members(e.allow.items) /\ AiModel(cap, op) # NoModel
      BY <2>2, <3>1, <3>2 DEF Members
    <3> QED BY <2>1, <3>3 DEF Grants
  <2> QED BY <2>3, <2>4
<1> QED BY <1>1, <1>2

LEMMA FirstArgument ==
    ASSUME NEW vals
    PROVE  SubSeq(vals, 1, 1) = <<vals[1]>>
<1> DEFINE one == SubSeq(vals, 1, 1)
<1>1. one \in Seq({vals[1]}) /\ Len(one) = 1 /\ one[1] = vals[1]
  <2>1. \A i \in 1..1 : vals[i] \in {vals[1]}
    OBVIOUS
  <2> QED BY <2>1, SubSeqProperties
<1> HIDE DEF one
<1>2. one = <<vals[1]>>
  BY <1>1
<1> QED BY <1>2 DEF one

\* A handler that has an effect has one that its check granted, or that goes to the
\* default model.
LEMMA TouchedIsGranted ==
    ASSUME NEW cap, IsCap(cap), NEW module, NEW op, NEW vals,
           ~Unchecked(module, op), ~Refused(cap, module, op, vals),
           CheckedModule(module) \notin AllowListIgnored,
           \E i \in 1..Len(Steps(module, op)) : Steps(module, op)[i] \in EffectKinds,
           NEW t \in Members(Touched(cap, module, op, vals))
    PROVE  \/ CheckedModule(module) = "ai" /\ t = <<"mock">>
           \/ CheckedModule(module) = "ai" /\ op \in ToDefault /\ t = NoModel
           \/ Grants(cap, CheckedModule(module), CheckedOp(module, op), t)
<1> DEFINE m == CheckedModule(module)
           o == CheckedOp(module, op)
<1>1. Guard(m) # "none"
  BY DEF Unchecked
<1>2. Guard(m) \in {"path", "host", "argv", "bucket", "model"}
  BY <1>1 DEF Guard, AllowListIgnored
<1>3. ~Swallows(module, op) => \A x \in Checked(module, op, vals) : Permits(cap, m, o, x)
  BY DEF Refused, NeverRefused
<1>4. CASE module # "ai"
  <2>1. m # "ai" /\ Guard(m) # "model" /\ ~Swallows(module, op)
    BY <1>4 DEF CheckedModule, Guard, Swallows
  <2>2. t \in Checked(module, op, vals)
    BY <1>4, <2>1 DEF Touched, Checked
  <2> HIDE DEF m, o
  <2>3. Permits(cap, m, o, t)
    BY <1>3, <2>1, <2>2
  <2>4. Grants(cap, m, o, t)
    BY <1>2, <2>1, <2>3, PermittedIsGranted
  <2> QED BY <2>4 DEF m, o
<1>5. CASE module = "ai"
  <2> DEFINE Asking == {"complete", "chat", "tools", "decide", "agent", "assert_semantic"}
  <2>1. m = "ai" /\ Guard(m) = "model"
    BY <1>5 DEF CheckedModule, Guard
  <2>2. op \in Asking \cup ToDefault
    <3>1. Steps(module, op) = AiSteps(op)
      BY <1>5 DEF Steps
    <3>2. op \notin Asking \cup ToDefault \cup {"chat_dir", "chat_ask", "assert_judge"}
             => AiSteps(op) \in {<<"event">>, <<>>}
      BY DEF AiSteps, EmbedSteps, SessionSteps, UsageSteps, ToDefault
    <3>3. AiSteps(op) \notin {<<"event">>, <<>>}
      BY <3>1 DEF EffectKinds
    <3>4. op \notin {"chat_dir", "chat_ask", "assert_judge"}
      BY <1>5 DEF Unchecked
    <3> QED BY <3>2, <3>3, <3>4
  <2>3. AiPermits(cap, o) => /\ \/ AiModel(cap, o) \in {NoModel, <<"mock">>}
                                \/ Grants(cap, "ai", o, AiModel(cap, o))
                             /\ cap.star \/ AiModel(cap, o) # NoModel
    BY ModelIsGranted
  <2>4. cap.star => Grants(cap, "ai", o, t)
    BY DEF Grants
  <2>5. CASE op \in Asking
    <3>1. Touched(cap, module, op, vals) = <<AiModel(cap, o)>> /\ ~Swallows(module, op)
      BY <1>5, <2>5 DEF Touched, Swallows
    <3>2. t = AiModel(cap, o)
      BY <3>1 DEF Members
    <3>3. AiPermits(cap, o)
      <4>1. vals[1] \in Checked(module, op, vals)
        BY <1>5, <2>5, FirstArgument DEF Targets, Checked, Members
      <4> QED BY <1>3, <2>1, <3>1, <4>1 DEF Permits
    <3> QED BY <2>1, <2>3, <2>4, <3>2, <3>3
  <2>6. CASE op = "session_ask"
    <3>1. t = vals[1] /\ vals[1] \in Checked(module, op, vals) /\ ~Swallows(module, op)
      BY <1>5, <2>6, FirstArgument DEF Touched, Targets, Checked, Members, Swallows
    <3>2. AiPermits(cap, o)
      BY <1>3, <2>1, <3>1 DEF Permits
    <3>3. AiModel(cap, o) # NoModel => vals[1] \in {NoModel, AiModel(cap, o)}
      BY <1>5, <2>6, <3>2 DEF Refused, NeverRefused, Unchecked, Swallows
    <3> QED BY <2>1, <2>3, <2>4, <2>6, <3>1, <3>2, <3>3 DEF ToDefault
  <2>7. CASE op = "network_run"
    <3>1. Touched(cap, module, op, vals) =
             IF AiPermits(cap, o) THEN <<AiModel(cap, o)>> ELSE <<NoModel>>
      BY <1>5, <2>7 DEF Touched, Swallows
    <3>2. t = IF AiPermits(cap, o) THEN AiModel(cap, o) ELSE NoModel
      BY <3>1 DEF Members
    <3> QED BY <2>1, <2>3, <2>7, <3>2 DEF ToDefault
  <2> QED BY <2>2, <2>5, <2>6, <2>7 DEF ToDefault
<1> QED BY <1>4, <1>5

-----------------------------------------------------------------------------
(* Lists.                                                                  *)

LEMMA MadeList ==
    ASSUME NEW n \in Nat, NEW f, DOMAIN f = 1..n, f = [i \in 1..n |-> f[i]]
    PROVE  IsList(f) /\ Len(f) = n
<1>1. f \in [1..n -> Members(f)]
  BY DEF Members
<1>2. f \in Seq(Members(f))
  BY <1>1, SeqDef
<1> QED BY <1>2 DEF IsList

LEMMA ListFacts ==
    ASSUME NEW s, IsList(s)
    PROVE  Len(s) \in Nat /\ DOMAIN s = 1..Len(s) /\ \A i \in 1..Len(s) : s[i] \in Members(s)
BY DEF IsList

LEMMA AppendToList ==
    ASSUME NEW s, IsList(s), NEW e
    PROVE  /\ IsList(Append(s, e)) /\ Len(Append(s, e)) = Len(s) + 1
           /\ Append(s, e)[Len(s) + 1] = e
           /\ \A i \in 1..Len(s) : Append(s, e)[i] = s[i]
<1>1. s \in Seq(Members(s) \cup {e})
  BY SeqMonotonic DEF IsList
<1>2. /\ Append(s, e) \in Seq(Members(s) \cup {e}) /\ Len(Append(s, e)) = Len(s) + 1
      /\ Append(s, e)[Len(s) + 1] = e
      /\ \A i \in 1..Len(s) : Append(s, e)[i] = s[i]
  BY <1>1
<1> DEFINE t == Append(s, e)
<1>3. t \in Seq(Members(s) \cup {e})
  BY <1>2
<1> HIDE DEF t
<1>4. Len(t) \in Nat /\ DOMAIN t = 1..Len(t) /\ t = [i \in 1..Len(t) |-> t[i]]
  BY <1>3
<1>5. IsList(t)
  BY <1>4, MadeList
<1> QED BY <1>2, <1>5 DEF t

LEMMA CutList ==
    ASSUME NEW s, IsList(s), NEW n \in 0..Len(s)
    PROVE  /\ IsList(SubSeq(s, 1, n)) /\ Len(SubSeq(s, 1, n)) = n
           /\ \A i \in 1..n : SubSeq(s, 1, n)[i] = s[i]
<1>1. Len(s) \in Nat /\ \A i \in 1..n : s[i] \in Members(s)
  BY DEF IsList
<1> DEFINE t == SubSeq(s, 1, n)
<1>2. t \in Seq(Members(s)) /\ Len(t) = n /\ \A i \in 1..n : t[i] = s[i]
  BY <1>1, SubSeqProperties
<1> HIDE DEF t
<1>3. Len(t) \in Nat /\ DOMAIN t = 1..Len(t) /\ t = [i \in 1..Len(t) |-> t[i]]
  BY <1>2
<1>4. IsList(t)
  BY <1>3, MadeList
<1> QED BY <1>2, <1>4 DEF t

LEMMA JoinLists ==
    ASSUME NEW s, NEW t, IsList(s), IsList(t)
    PROVE  IsList(s \o t) /\ Members(s \o t) = Members(s) \cup Members(t)
<1> DEFINE S == Members(s) \cup Members(t)
<1>1. s \in Seq(S) /\ t \in Seq(S)
  BY SeqMonotonic DEF IsList
<1>2. Len(s) \in Nat /\ Len(t) \in Nat /\ DOMAIN s = 1..Len(s) /\ DOMAIN t = 1..Len(t)
  BY <1>1
<1> DEFINE u == s \o t
<1>3. /\ u \in Seq(S) /\ Len(u) = Len(s) + Len(t)
      /\ \A i \in 1..(Len(s) + Len(t)) : u[i] = IF i <= Len(s) THEN s[i] ELSE t[i - Len(s)]
  <2> HIDE DEF S
  <2> QED BY <1>1, ConcatProperties
<1> HIDE DEF u
<1>4. DOMAIN u = 1..Len(u) /\ u = [i \in 1..Len(u) |-> u[i]]
  BY <1>3
<1>5. IsList(u)
  BY <1>2, <1>3, <1>4, MadeList
<1>6. Members(u) \subseteq S
  BY <1>2, <1>3, <1>4 DEF Members
<1>7. Members(s) \subseteq Members(u)
  BY <1>2, <1>3, <1>4 DEF Members
<1>8. Members(t) \subseteq Members(u)
  <2> SUFFICES ASSUME NEW j \in 1..Len(t) PROVE t[j] \in Members(u)
    BY <1>2 DEF Members
  <2>1. Len(s) + j \in 1..Len(u) /\ u[Len(s) + j] = t[j]
    BY <1>2, <1>3
  <2> QED BY <1>4, <2>1 DEF Members
<1> QED BY <1>5, <1>6, <1>7, <1>8 DEF u

-----------------------------------------------------------------------------
(* The cap of main.                                                        *)

Proper(entries) ==
    IsList(entries) /\ \A e \in Members(entries) : IsList(e.path) /\ IsAllowList(e.allow.items)

LEMMA FamilyIsProper ==
    ASSUME NEW module, NEW ops, IsList(ops), NEW list, IsAllowList(list)
    PROVE  Proper(Family(module, ops, list))
<1>1. CASE list = <<>>
  <2>1. IsList(<<>>) /\ Members(<<>>) = {}
    BY DEF IsList, Members
  <2> QED BY <1>1, <2>1 DEF Family, Proper
<1>2. CASE list # <<>>
  <2>1. Len(ops) \in Nat /\ DOMAIN ops = 1..Len(ops)
    BY ListFacts
  <2> DEFINE made == [i \in 1..Len(ops) |-> Entry(<<module, ops[i]>>, Listed(list))]
  <2>2. IsList(made)
    BY <2>1, MadeList
  <2>3. \A i \in 1..Len(ops) : made[i].path = <<module, ops[i]>> /\ made[i].allow.items = list
    BY DEF Entry, Listed
  <2>4. \A a, b : IsList(<<a, b>>)
    BY DEF IsList, Members
  <2>5. \A e \in Members(made) : IsList(e.path) /\ IsAllowList(e.allow.items)
    <3>1. DOMAIN made = 1..Len(ops)
      OBVIOUS
    <3> HIDE DEF made
    <3> QED BY <2>3, <2>4, <3>1 DEF Members
  <2> QED BY <1>2, <2>1, <2>2, <2>5 DEF Family, Proper
<1> QED BY <1>1, <1>2

LEMMA JoinProper ==
    ASSUME NEW s, NEW t, Proper(s), Proper(t)
    PROVE  Proper(s \o t)
BY JoinLists DEF Proper

LEMMA MainCapIsCap ==
    ASSUME NEW m \in Manifests
    PROVE  IsCap(MainCap(m))
<1>1. IsCap(CapStar)
  BY DEF CapStar, IsCap, IsList, Members
<1>2. CASE m.read = "parsed"
  <2> DEFINE caps == m.caps
  <2>1. /\ IsAllowList(caps.http_allow) /\ IsAllowList(caps.fs_allow_read)
        /\ IsAllowList(caps.fs_allow_write) /\ IsAllowList(caps.kube_contexts)
        /\ IsAllowList(caps.ai_models)
    BY <1>2, CapsAssumption
  <2> HIDE DEF caps
  <2>2. /\ IsList(HttpOps) /\ IsList(ReadOps) /\ IsList(WriteOps) /\ IsList(KubeOps)
        /\ IsList(AiOps)
    <3>1. IsList(HttpOps)
      BY DEF HttpOps, IsList, Members
    <3>2. IsList(ReadOps)
      BY DEF ReadOps, IsList, Members
    <3>3. IsList(WriteOps)
      BY DEF WriteOps, IsList, Members
    <3>4. IsList(KubeOps)
      BY DEF KubeOps, IsList, Members
    <3>5. IsList(AiOps)
      BY DEF AiOps, IsList, Members
    <3> QED BY <3>1, <3>2, <3>3, <3>4, <3>5
  <2> DEFINE free == [i \in DOMAIN FreeOps |-> Entry(FreeOps[i], Unlisted)]
  <2>3. Proper(free)
    <3>1. DOMAIN FreeOps = 1..9
      BY DEF FreeOps
    <3>2. IsList(free)
      BY <3>1, MadeList
    <3>3. \A i \in 1..9 : IsList(FreeOps[i])
      <4>1. \A a, b : IsList(<<a, b>>)
        BY DEF IsList, Members
      <4>2. \A i \in 1..9 : FreeOps[i] = <<FreeOps[i][1], FreeOps[i][2]>>
        BY DEF FreeOps
      <4> QED BY <4>1, <4>2
    <3>4. IsAllowList(<<>>)
      BY DEF IsAllowList, IsList, Members
    <3>5. \A e \in Members(free) : IsList(e.path) /\ IsAllowList(e.allow.items)
      BY <3>1, <3>3, <3>4 DEF Members, Entry, Unlisted
    <3> QED BY <3>2, <3>5 DEF Proper
  <2> HIDE DEF free
  <2>4. /\ Proper(Family("http", HttpOps, caps.http_allow))
        /\ Proper(Family("fs", ReadOps, caps.fs_allow_read))
        /\ Proper(Family("fs", WriteOps, caps.fs_allow_write))
        /\ Proper(Family("kube", KubeOps, caps.kube_contexts))
        /\ Proper(Family("ai", AiOps, caps.ai_models))
    BY <2>1, <2>2, FamilyIsProper
  <2>5. IsCap(SynthesiseMainCap(caps))
    <3>1. CASE caps.enforce = "off"
      BY <1>1, <3>1 DEF SynthesiseMainCap
    <3>2. CASE caps.enforce # "off"
      <4>1. Proper(SynthesiseMainCap(caps).entries)
        BY <2>3, <2>4, <3>2, JoinProper DEF SynthesiseMainCap, free
      <4> QED BY <4>1 DEF Proper, IsCap
    <3> QED BY <3>1, <3>2
  <2> QED BY <1>2, <2>5 DEF MainCap, caps
<1> QED BY <1>1, <1>2 DEF MainCap

-----------------------------------------------------------------------------
(* Narrowing down the stack of functions.                                  *)

\* Every cap in the lineage of a frame covers the one in scope, or is it.
NarrowedFrom(f) ==
    /\ f = Frame(f.cap, f.lineage, f.sig)
    /\ IsList(f.lineage) /\ \A k \in 1..Len(f.lineage) : IsCap(f.lineage[k])
    /\ Holds(f) => /\ IsCap(f.cap)
                   /\ \A k \in 1..Len(f.lineage) :
                        f.lineage[k] = f.cap \/ Covers(f.lineage[k], f.cap)

Narrowing ==
    /\ IsCap(root)
    /\ IsList(stack) /\ Len(stack) > 0
    /\ \A i \in 1..Len(stack) : NarrowedFrom(stack[i])

LEMMA MainFrame ==
    ASSUME NEW c, IsCap(c), NEW s
    PROVE  NarrowedFrom(Frame(c, <<c>>, s))
<1>1. IsList(<<c>>) /\ Len(<<c>>) = 1 /\ <<c>>[1] = c
  BY DEF IsList, Members
<1> QED BY <1>1 DEF Frame, NarrowedFrom

LEMMA PushKeeps ==
    ASSUME Narrowing, NEW f, NarrowedFrom(f), stack' = Append(stack, f), root' = root
    PROVE  Narrowing'
<1>1. Len(stack) \in Nat
  BY ListFacts DEF Narrowing
<1>2. /\ IsList(stack') /\ Len(stack') = Len(stack) + 1 /\ stack'[Len(stack) + 1] = f
      /\ \A i \in 1..Len(stack) : stack'[i] = stack[i]
  BY AppendToList DEF Narrowing
<1>3. \A i \in 1..Len(stack') : NarrowedFrom(stack'[i])
  <2> TAKE i \in 1..Len(stack')
  <2>1. i \in 1..Len(stack) \/ i = Len(stack) + 1
    BY <1>1, <1>2
  <2> QED BY <1>2, <2>1 DEF Narrowing
<1> QED BY <1>1, <1>2, <1>3 DEF Narrowing, NarrowedFrom, Holds, Frame

LEMMA CutKeeps ==
    ASSUME Narrowing, NEW n \in 1..Len(stack), stack' = SubSeq(stack, 1, n), root' = root
    PROVE  Narrowing'
<1>1. Len(stack) \in Nat
  BY ListFacts DEF Narrowing
<1>2. IsList(stack') /\ Len(stack') = n /\ \A i \in 1..n : stack'[i] = stack[i]
  BY <1>1, CutList DEF Narrowing
<1> QED BY <1>1, <1>2 DEF Narrowing, NarrowedFrom, Holds, Frame

LEMMA NarrowKeeps ==
    ASSUME NarrowedFrom(Top), Holds(Top), NEW child \in Narrowings, Covers(Top.cap, child)
    PROVE  NarrowedFrom(Frame(child, Append(Top.lineage, child), Top.sig))
<1> DEFINE lin == Append(Top.lineage, child)
<1>1. IsCap(child)
  BY CapsAssumption
<1>2. IsList(Top.lineage) /\ Len(Top.lineage) \in Nat
  BY ListFacts DEF NarrowedFrom
<1>3. /\ IsList(lin) /\ Len(lin) = Len(Top.lineage) + 1 /\ lin[Len(Top.lineage) + 1] = child
      /\ \A k \in 1..Len(Top.lineage) : lin[k] = Top.lineage[k]
  BY <1>2, AppendToList
<1> HIDE DEF lin
<1>4. \A k \in 1..Len(lin) : IsCap(lin[k]) /\ (lin[k] = child \/ Covers(lin[k], child))
  <2> TAKE k \in 1..Len(lin)
  <2>1. CASE k = Len(lin)
    BY <1>1, <1>3, <2>1
  <2>2. CASE k # Len(lin)
    <3>1. k \in 1..Len(Top.lineage) /\ lin[k] = Top.lineage[k]
      BY <1>2, <1>3, <2>2
    <3>2. IsCap(lin[k]) /\ (lin[k] = Top.cap \/ Covers(lin[k], Top.cap))
      BY <3>1 DEF NarrowedFrom
    <3> QED BY <3>2, CoversTransitive
  <2> QED BY <2>1, <2>2
<1>5. NarrowedFrom(Frame(child, lin, Top.sig))
  BY <1>1, <1>3, <1>4 DEF Frame, NarrowedFrom
<1> QED BY <1>5 DEF lin

LEMMA NarrowingInit == CapInit => Narrowing
<1> SUFFICES ASSUME CapInit PROVE Narrowing
  OBVIOUS
<1>1. IsCap(root)
  BY MainCapIsCap DEF CapInit
<1>2. PICK s \in Signatures \cup {Undeclared} : stack = << Frame(root, <<root>>, s) >>
  BY DEF CapInit
<1>3. NarrowedFrom(Frame(root, <<root>>, s))
  BY <1>1, MainFrame
<1>4. IsList(stack) /\ Len(stack) = 1 /\ stack[1] = Frame(root, <<root>>, s)
  BY <1>2 DEF IsList, Members
<1> QED BY <1>1, <1>3, <1>4 DEF Narrowing

LEMMA NarrowingStep ==
    ASSUME Narrowing, [CapNext]_capVars
    PROVE  Narrowing'
<1>1. NarrowedFrom(Top) /\ Len(stack) \in Nat
  BY ListFacts DEF Narrowing, Top
<1>2. CASE \E s \in Signatures : Enter(s)
  <2>1. PICK s \in Signatures : Enter(s)
    BY <1>2
  <2>2. /\ stack' = Append(stack, Frame(Top.cap, Top.lineage, s)) /\ root' = root
        /\ NarrowedFrom(Frame(Top.cap, Top.lineage, s))
    BY <1>1, <2>1 DEF Enter, Frame, NarrowedFrom, Holds
  <2> QED BY <2>2, PushKeeps
<1>3. CASE EnterWithoutCap
  <2>1. /\ stack' = Append(stack, Frame(root, <<root>>, Undeclared)) /\ root' = root
        /\ NarrowedFrom(Frame(root, <<root>>, Undeclared))
    BY <1>3, MainFrame DEF EnterWithoutCap, Narrowing
  <2> QED BY <2>1, PushKeeps
<1>4. CASE Shadow
  <2>1. /\ stack' = Append(stack, [Top EXCEPT !.cap = NotACap]) /\ root' = root
        /\ NarrowedFrom([Top EXCEPT !.cap = NotACap])
    BY <1>1, <1>4 DEF Shadow, NarrowedFrom, Holds, Frame
  <2> QED BY <2>1, PushKeeps
<1>5. CASE \E c \in Narrowings : Narrow(c)
  <2>1. PICK c \in Narrowings : Narrow(c)
    BY <1>5
  <2>2. CASE Holds(Top) /\ Covers(Top.cap, c)
    BY <1>1, <2>1, <2>2, NarrowKeeps, PushKeeps DEF Narrow
  <2>3. CASE ~(Holds(Top) /\ Covers(Top.cap, c))
    BY <2>1, <2>3 DEF Narrow, Narrowing, NarrowedFrom, Holds, Frame
  <2> QED BY <2>2, <2>3
<1>6. CASE Leave
  <2>1. Len(stack) - 1 \in 1..Len(stack)
    BY <1>1, <1>6 DEF Leave
  <2> QED BY <1>6, <2>1, CutKeeps DEF Leave
<1>7. CASE \E n \in 1..Len(stack) : Unwind(n)
  BY <1>7, CutKeeps DEF Unwind
<1>8. CASE UNCHANGED <<root, stack>>
  BY <1>8 DEF Narrowing, NarrowedFrom, Holds, Frame
<1>9. CASE UNCHANGED capVars
  BY <1>8, <1>9 DEF capVars
<1> QED BY <1>2, <1>3, <1>4, <1>5, <1>6, <1>7, <1>8, <1>9
    DEF CapNext, Call, PoliciesDone, NextPolicy, Clause, Raise, Fail, ArgsRead, Refuse, Pass,
        Examine, Act, SendFails, AskFails, Stage, StagesDone, Record, AskAgain, Decided, Return,
        Continue

-----------------------------------------------------------------------------
(* What a call touches.                                                    *)

Cleared ==
    \/ NeverRefused(call.module, call.op)
    \/ Holds(Top) /\ ~Refused(Top.cap, call.module, call.op, call.vals)

HandlerSteps == Steps(call.module, call.op)
HasEffects == \E i \in 1..Len(HandlerSteps) : HandlerSteps[i] \in EffectKinds

\* A call that is past its check was cleared under the cap that is still in
\* scope, and what it has touched is among what that check looked at.
Guarded ==
    /\ doing \in {"check", "handler"} => ArgsFit
    /\ doing = "handler" => Cleared
    /\ IsList(effects)
    /\ effects # <<>> => Cleared /\ HasEffects
    /\ Members(effects) \subseteq Members(Touch)

CapInv == Narrowing /\ Guarded

LEMMA TouchIsList ==
    ASSUME ArgsFit
    PROVE  IsList(Touch)
<1> DEFINE cap == IF Holds(Top) THEN Top.cap ELSE CapStar
<1>1. \A x, y : IsList(<<x>>) /\ IsList(<<x, y>>)
  BY DEF IsList, Members
<1>2. IsList(SubSeq(call.vals, 1, 1))
  <2>1. /\ SubSeq(call.vals, 1, 1) \in Seq({call.vals[1]}) /\ Len(SubSeq(call.vals, 1, 1)) = 1
    <3>1. \A i \in 1..1 : call.vals[i] \in {call.vals[1]}
      OBVIOUS
    <3> QED BY <3>1, SubSeqProperties
  <2> DEFINE t == SubSeq(call.vals, 1, 1)
  <2>2. t \in Seq({call.vals[1]})
    BY <2>1
  <2> HIDE DEF t
  <2>3. Len(t) \in Nat /\ DOMAIN t = 1..Len(t) /\ t = [i \in 1..Len(t) |-> t[i]]
    BY <2>2
  <2>4. IsList(t)
    BY <2>3, MadeList
  <2> QED BY <2>4 DEF t
<1>3. IsList(Targets(call.module, call.op, call.vals))
  <2>1. CASE <<call.module, call.op>> = <<"shell", "pipe">>
    BY <2>1 DEF Targets, ArgsFit
  <2>2. CASE <<call.module, call.op>> \in {<<"fs", "rename">>, <<"ai", "chat_dir">>}
    BY <1>1, <2>2 DEF Targets
  <2> QED BY <1>2, <2>1, <2>2 DEF Targets
<1> QED BY <1>1, <1>3 DEF Touch, Touched

LEMMA GuardedInit == CapInit => Guarded
BY DEF CapInit, Guarded, IsList, Members, NoCall

\* What leaves the frames, the call and its effects alone.
LEMMA GuardedKept ==
    ASSUME Guarded, UNCHANGED <<stack, call, effects>>,
           doing' \in {"check", "handler"} => ArgsFit,
           doing' = "handler" => Cleared
    PROVE  Guarded'
BY DEF Guarded, Cleared, HasEffects, HandlerSteps, Touch, Top, ArgsFit, Holds

\* What forgets the call.
LEMMA GuardedAfresh ==
    ASSUME effects' = <<>>, doing' \notin {"check", "handler"}
    PROVE  Guarded'
BY DEF Guarded, IsList, Members

\* An effect of the handler.
LEMMA GuardedEffect ==
    ASSUME Guarded, UNCHANGED <<stack, call, doing>>, doing = "handler", HasEffects,
           NEW more, IsList(more),
            effects' = effects \o more, Members(more) \subseteq Members(Touch)
    PROVE  Guarded'
<1>1. IsList(effects') /\ Members(effects') = Members(effects) \cup Members(more)
  BY JoinLists DEF Guarded
<1> QED BY <1>1 DEF Guarded, Cleared, HasEffects, HandlerSteps, Touch, Top, ArgsFit, Holds

LEMMA InHandlerFacts ==
    ASSUME InHandler, at \in Nat, at > 0
    PROVE  at \in 1..Len(HandlerSteps) /\ Step = HandlerSteps[at]
BY StepFacts DEF InHandler, HandlerSteps, Step

LEMMA GuardedStep ==
    ASSUME Guarded, at \in Nat, at > 0, [CapNext]_capVars
    PROVE  Guarded'
<1>1. CASE (\E s \in Signatures : Enter(s)) \/ EnterWithoutCap \/ Shadow \/ Leave
           \/ (\E n \in 1..Len(stack) : Unwind(n))
  <2>1. effects' = <<>> /\ doing' = "body"
    BY <1>1 DEF Enter, EnterWithoutCap, Shadow, Leave, Unwind, DropCall
  <2> QED BY <2>1, GuardedAfresh
<1>2. CASE \E c \in Narrowings : Narrow(c)
  <2>1. effects' = <<>> /\ doing' \in {"body", "raised"}
    BY <1>2 DEF Narrow, DropCall
  <2> QED BY <2>1, GuardedAfresh
<1>3. CASE \E c \in Calls : Call(c)
  <2>1. effects' = <<>> /\ doing' \in {"policy", "args", "raised"}
    BY <1>3 DEF Call
  <2> QED BY <2>1, GuardedAfresh
<1>4. CASE PoliciesDone \/ NextPolicy \/ (\E o \in ClauseOutcomes : Clause(o)) \/ Raise
           \/ Refuse \/ AskFails \/ Return
  <2>1. UNCHANGED <<stack, call, effects>> /\ doing' \notin {"check", "handler"}
    BY <1>4 DEF PoliciesDone, NextPolicy, Clause, ClauseDue, Raise, Refuse, AskFails, Return,
                Fail, callVars
  <2> QED BY <2>1, GuardedKept
<1>5. CASE ArgsRead
  <2>1. UNCHANGED <<stack, call, effects>> /\ doing' = "check" /\ ArgsFit
    BY <1>5 DEF ArgsRead, callVars
  <2> QED BY <2>1, GuardedKept
<1>6. CASE Pass
  <2>1. UNCHANGED <<stack, call, effects>> /\ doing' = "handler" /\ doing = "check"
    BY <1>6 DEF Pass, callVars
  <2>2. ArgsFit /\ Cleared
    BY <1>6, <2>1 DEF Pass, Guarded, Cleared
  <2> QED BY <2>1, <2>2, GuardedKept
<1>7. CASE Examine \/ SendFails \/ StagesDone \/ Record \/ AskAgain \/ Decided
  <2>1. UNCHANGED <<stack, call, effects, doing>>
    BY <1>7 DEF Examine, SendFails, StagesDone, Record, AskAgain, Decided, Continue
  <2> QED BY <2>1, GuardedKept DEF Guarded
<1>8. CASE Act
  <2>1. /\ UNCHANGED <<stack, call, doing>> /\ doing = "handler" /\ effects' = effects \o Touch
        /\ Step \in {"do", "act", "send", "ask"} /\ InHandler
    BY <1>8 DEF Act, Continue, InHandler
  <2>2. HasEffects
    BY <2>1, InHandlerFacts DEF HasEffects, EffectKinds
  <2>3. IsList(Touch)
    BY <2>1, TouchIsList DEF Guarded
  <2> QED BY <2>1, <2>2, <2>3, GuardedEffect
<1>9. CASE Stage
  <2>1. /\ UNCHANGED <<stack, call, doing>> /\ doing = "handler"
        /\ effects' = Append(effects, Touch[Len(effects) + 1]) /\ Len(effects) < Len(Touch)
        /\ Step = "stages" /\ InHandler
    BY <1>9 DEF Stage, InHandler
  <2>2. HasEffects
    BY <2>1, InHandlerFacts DEF HasEffects, EffectKinds
  <2>3. IsList(Touch)
    BY <2>1, TouchIsList DEF Guarded
  <2> DEFINE x == Touch[Len(effects) + 1]
  <2>4. x \in Members(Touch)
    BY <2>1, <2>3, ListFacts DEF Guarded
  <2>5. IsList(<<x>>) /\ Members(<<x>>) = {x}
    <3> HIDE DEF x
    <3> QED BY DEF IsList, Members
  <2>6. effects' = effects \o <<x>>
    <3> HIDE DEF x
    <3>1. effects \in Seq(Members(effects) \cup {x})
      BY SeqMonotonic DEF Guarded, IsList
    <3>2. effects' = Append(effects, x)
      BY <2>1 DEF x
    <3> QED BY <3>1, <3>2, AppendIsConcat
  <2> HIDE DEF x
  <2> QED BY <2>1, <2>2, <2>4, <2>5, <2>6, GuardedEffect
<1>10. CASE UNCHANGED capVars
  <2>1. UNCHANGED <<stack, call, effects, doing>>
    BY <1>10 DEF capVars
  <2> QED BY <2>1, GuardedKept DEF Guarded
<1> QED BY <1>1, <1>2, <1>3, <1>4, <1>5, <1>6, <1>7, <1>8, <1>9, <1>10 DEF CapNext

LEMMA CapInvMeans == CapInv => EffectsGranted
<1> DEFINE m == CheckedModule(call.module)
           o == CheckedOp(call.module, call.op)
<1> SUFFICES ASSUME CapInv, ~Unchecked(call.module, call.op), m \notin AllowListIgnored,
                    NEW i \in DOMAIN effects,
                    ~(m = "ai" /\ effects[i] = <<"mock">>),
                    ~(m = "ai" /\ call.op \in ToDefault /\ effects[i] = NoModel)
             PROVE  /\ Holds(Top)
                    /\ \A k \in DOMAIN Top.lineage : Grants(Top.lineage[k], m, o, effects[i])
  BY DEF EffectsGranted
<1>1. effects # <<>> /\ effects[i] \in Members(effects)
  BY DEF Members
<1>2. Cleared /\ HasEffects /\ effects[i] \in Members(Touch)
  BY <1>1 DEF CapInv, Guarded
<1>3. Holds(Top)
  <2> SUFFICES ASSUME ~Holds(Top) PROVE FALSE
    OBVIOUS
  <2>1. call.module = "ai" /\ call.op = "network_run" /\ m = "ai"
    BY <1>2 DEF Cleared, NeverRefused, Swallows, CheckedModule
  <2>2. AiPermits(CapStar, CheckedOp(call.module, call.op))
    BY DEF AiPermits, CapStar
  <2>3. Touch = <<AiModel(CapStar, CheckedOp(call.module, call.op))>>
    BY <2>1, <2>2 DEF Touch, Touched, Swallows
  <2>4. AiModel(CapStar, CheckedOp(call.module, call.op)) = NoModel
    BY DEF AiModel, CapStar
  <2>5. effects[i] = NoModel
    BY <1>2, <2>3, <2>4 DEF Members
  <2> QED BY <2>1, <2>5 DEF ToDefault
<1>4. ~Refused(Top.cap, call.module, call.op, call.vals)
  BY <1>2 DEF Cleared, Refused
<1>5. NarrowedFrom(Top)
  BY ListFacts DEF CapInv, Narrowing, Top
<1>6. effects[i] \in Members(Touched(Top.cap, call.module, call.op, call.vals))
  BY <1>2, <1>3 DEF Touch
<1>7. IsCap(Top.cap)
  BY <1>3, <1>5 DEF NarrowedFrom
<1>8. Grants(Top.cap, m, o, effects[i])
  BY <1>2, <1>4, <1>6, <1>7, TouchedIsGranted DEF HasEffects, HandlerSteps
<1>9. ASSUME NEW k \in DOMAIN Top.lineage PROVE Grants(Top.lineage[k], m, o, effects[i])
  <2>1. k \in 1..Len(Top.lineage)
    BY <1>5, ListFacts DEF NarrowedFrom
  <2>2. IsCap(Top.lineage[k]) /\ (Top.lineage[k] = Top.cap \/ Covers(Top.lineage[k], Top.cap))
    BY <1>3, <1>5, <2>1 DEF NarrowedFrom
  <2> HIDE DEF m, o
  <2> QED BY <1>8, <2>2, CoveredGrants
<1> QED BY <1>3, <1>9

-----------------------------------------------------------------------------
(* What is recorded.                                                       *)

Recorded == {v \in verdicts : v.kind \in {"audit", "limit"}}
Past(kinds) == \E j \in 1..Len(HandlerSteps) : j < at /\ HandlerSteps[j] \in kinds

\* The policies recorded an event for each of their audit and limit clauses, and
\* the handler one more once it is past its event; an Err value means that the
\* one effect of the handler did not come about.
Accounts ==
    /\ at \in Nat /\ at > 0 /\ events \in Nat
    /\ IsFiniteSet(verdicts) /\ events >= Cardinality(Recorded)
    /\ doing \in {"policy", "args", "check"} => effects = <<>> /\ outcome = "none" /\ at = 1
    /\ doing = "handler" =>
          /\ outcome \in {"none", "errvalue"}
          /\ Past({"event"}) => events > Cardinality(Recorded)
          /\ effects # <<>> => \/ Past(EffectKinds)
                               \/ \E j \in 1..Len(HandlerSteps) :
                                      HandlerSteps[j] \in {"stages", "again"}
          /\ outcome = "errvalue" => Past(Fallible)
    /\ outcome = "errvalue" => effects = <<>>
    /\ outcome = "value" /\ effects # <<>> => events > Cardinality(Recorded)

LEMMA AccountsInit == CapInit => Accounts
<1> SUFFICES ASSUME CapInit PROVE Accounts
  OBVIOUS
<1>1. verdicts = {} /\ Recorded = {} /\ Cardinality({}) = 0 /\ IsFiniteSet({})
  BY FS_EmptySet DEF CapInit, Recorded
<1> QED BY <1>1 DEF CapInit, Accounts

LEMMA AccountsAfresh ==
    ASSUME verdicts' = {}, at' = 1, effects' = <<>>, events' = 0, outcome' = "none",
           doing' # "handler"
    PROVE  Accounts'
<1>1. Recorded' = {} /\ Cardinality({}) = 0 /\ IsFiniteSet({})
  BY FS_EmptySet DEF Recorded
<1> QED BY <1>1 DEF Accounts

\* The clauses of a policy are heard before anything happens.
LEMMA ClauseAccounts ==
    ASSUME Accounts, NEW o \in ClauseOutcomes, Clause(o)
    PROVE  Accounts'
<1> DEFINE kind == Clauses(CurrentPolicy)[clause.at]
           v == [policy |-> clause.policy, at |-> clause.at, kind |-> kind, outcome |-> o]
<1>1. /\ doing = "policy" /\ verdicts' = verdicts \cup {v} /\ at' = at /\ effects' = effects
      /\ doing' \in {"policy", "raised"} /\ outcome' \in {outcome, "refused"}
      /\ events' = IF kind \in {"audit", "limit"} THEN events + 1 ELSE events
      /\ doing' = "policy" => outcome' = outcome
  BY DEF Clause, ClauseDue
<1>2. v.kind = kind
  OBVIOUS
<1> HIDE DEF v, kind
<1>3. IsFiniteSet(verdicts') /\ IsFiniteSet(Recorded) /\ Cardinality(Recorded) \in Nat
  <2>1. Recorded \in SUBSET verdicts
    BY DEF Recorded
  <2>2. IsFiniteSet(verdicts)
    BY DEF Accounts
  <2> QED BY <1>1, <2>1, <2>2, FS_AddElement, FS_Subset, FS_CardinalityType
<1>4. /\ events' \in Nat
      /\ events' >= Cardinality(Recorded')
  <2>1. CASE kind \in {"audit", "limit"}
    <3>1. Recorded' = Recorded \cup {v}
      BY <1>1, <1>2, <2>1 DEF Recorded
    <3>2. Cardinality(Recorded \cup {v}) \in {Cardinality(Recorded), Cardinality(Recorded) + 1}
      BY <1>3, FS_AddElement
    <3> QED BY <1>1, <1>3, <2>1, <3>1, <3>2 DEF Accounts
  <2>2. CASE kind \notin {"audit", "limit"}
    <3>1. Recorded' = Recorded
      BY <1>1, <1>2, <2>2 DEF Recorded
    <3> QED BY <1>1, <2>2, <3>1 DEF Accounts
  <2> QED BY <2>1, <2>2
<1>5. effects = <<>> /\ outcome = "none" /\ at = 1
  BY <1>1 DEF Accounts
<1> QED BY <1>1, <1>3, <1>4, <1>5 DEF Accounts

LEMMA AccountsStep ==
    ASSUME Accounts, [CapNext]_capVars
    PROVE  Accounts'
<1>0. at \in Nat /\ at > 0 /\ Len(HandlerSteps) \in Nat
  BY StepFacts DEF Accounts, HandlerSteps
<1>1. CASE (\E s \in Signatures : Enter(s)) \/ EnterWithoutCap \/ Shadow \/ Leave
           \/ (\E n \in 1..Len(stack) : Unwind(n)) \/ (\E c \in Narrowings : Narrow(c))
           \/ (\E c \in Calls : Call(c))
  <2>1. /\ verdicts' = {} /\ at' = 1 /\ effects' = <<>> /\ events' = 0 /\ outcome' = "none"
        /\ doing' # "handler"
    BY <1>1 DEF Enter, EnterWithoutCap, Shadow, Leave, Unwind, Narrow, Call, DropCall
  <2> QED BY <2>1, AccountsAfresh
<1>2. CASE \E o \in ClauseOutcomes : Clause(o)
  BY <1>2, ClauseAccounts
<1>3. CASE PoliciesDone \/ NextPolicy \/ ArgsRead
  <2>1. /\ UNCHANGED <<verdicts, at, effects, events, outcome>>
        /\ doing \in {"policy", "args"} /\ doing' \in {"policy", "args", "check"}
    BY <1>3 DEF PoliciesDone, NextPolicy, ArgsRead, callVars
  <2> QED BY <2>1 DEF Accounts, Recorded
<1>4. CASE Raise \/ Refuse
  <2>1. /\ UNCHANGED <<verdicts, at, effects, events>> /\ outcome' \in {"raised", "refused"}
        /\ doing' = "raised"
    BY <1>4 DEF Raise, Refuse, Fail
  <2> QED BY <2>1 DEF Accounts, Recorded
<1>5. CASE Pass
  <2>1. /\ UNCHANGED <<verdicts, at, effects, events, outcome, call>>
        /\ doing = "check" /\ doing' = "handler"
    BY <1>5 DEF Pass, callVars
  <2>2. at = 1 /\ effects = <<>> /\ outcome = "none"
    BY <2>1 DEF Accounts
  <2>3. \A kinds : ~Past(kinds)'
    BY <2>1, <2>2 DEF Past
  <2> QED BY <2>1, <2>2, <2>3 DEF Accounts, Recorded
<1>6. ASSUME InHandler, UNCHANGED <<doing, call, verdicts>>, at' = at + 1,
             events' \in {events, events + 1}, Step = "event" => events' = events + 1,
             effects' = effects \/ (Step \in EffectKinds /\ outcome' = outcome),
             outcome' = outcome \/ (outcome' = "errvalue" /\ Step \in Fallible /\ effects' = effects)
      PROVE  Accounts'
  <2> DEFINE s == HandlerSteps
  <2>1. /\ doing = "handler" /\ at \in 1..Len(s) /\ s[at] = Step /\ s' = s /\ Recorded' = Recorded
    BY <1>0, <1>6, InHandlerFacts DEF InHandler, HandlerSteps, Recorded
  <2>2. \A kinds : Past(kinds)' <=> Past(kinds) \/ Step \in kinds
    BY <1>0, <1>6, <2>1 DEF Past
  <2>3. \A i, j \in 1..Len(s) : s[i] \in Fallible /\ s[j] \in EffectKinds \cup {"again"} => i = j
    BY StepFacts DEF HandlerSteps
  <2>4. Fallible \subseteq EffectKinds /\ "stages" \in EffectKinds \ Fallible
        /\ "again" \notin Fallible
    BY DEF EffectKinds, Fallible
  <2>5. Cardinality(Recorded) \in Nat
    <3>1. Recorded \in SUBSET verdicts
      BY DEF Recorded
    <3> QED BY <3>1, FS_Subset, FS_CardinalityType DEF Accounts
  <2>6. CASE outcome' = outcome
    <3>1. outcome = "errvalue" => effects' = <<>>
      <4> SUFFICES ASSUME outcome = "errvalue" PROVE effects' = effects
        BY DEF Accounts
      <4>1. PICK j \in 1..Len(s) : j < at /\ s[j] \in Fallible
        BY <2>1 DEF Accounts, Past
      <4> QED BY <1>6, <2>1, <2>3, <4>1
    <3> QED BY <1>0, <1>6, <2>1, <2>2, <2>5, <2>6, <3>1 DEF Accounts
  <2>7. CASE outcome' # outcome
    <3>1. Step \in Fallible /\ effects' = effects /\ outcome' = "errvalue"
      BY <1>6, <2>7
    <3>2. effects = <<>>
      <4>1. ~Past(EffectKinds)
        BY <2>1, <2>3, <3>1 DEF Past
      <4>2. ~\E j \in 1..Len(s) : s[j] \in {"stages", "again"}
        BY <2>1, <2>3, <2>4, <3>1
      <4> QED BY <2>1, <4>1, <4>2 DEF Accounts
    <3> QED BY <1>0, <1>6, <2>1, <2>2, <2>5, <3>1, <3>2 DEF Accounts
  <2> QED BY <2>6, <2>7
<1>7. CASE Examine \/ Act \/ SendFails \/ StagesDone \/ Record \/ Decided
  <2>1. /\ InHandler /\ UNCHANGED <<doing, call, verdicts>> /\ at' = at + 1
        /\ events' \in {events, events + 1} /\ (Step = "event" => events' = events + 1)
        /\ effects' = effects \/ (Step \in EffectKinds /\ outcome' = outcome)
        /\ outcome' = outcome \/ (outcome' = "errvalue" /\ Step \in Fallible /\ effects' = effects)
    BY <1>7 DEF Examine, Act, SendFails, StagesDone, Record, Decided, Continue, EffectKinds,
                Fallible
  <2> QED BY <1>6, <2>1
<1>8. CASE Stage
  <2> DEFINE s == HandlerSteps
  <2>1. /\ InHandler /\ UNCHANGED <<doing, call, verdicts, at, events, outcome>>
        /\ Step = "stages" /\ doing = "handler"
    BY <1>8 DEF Stage, InHandler
  <2>2. at \in 1..Len(s) /\ s[at] = "stages" /\ s' = s /\ Recorded' = Recorded
    BY <1>0, <2>1, InHandlerFacts DEF HandlerSteps, Recorded
  <2>3. \A kinds : Past(kinds)' <=> Past(kinds)
    BY <2>1, <2>2 DEF Past
  <2>4. outcome # "errvalue"
    <3>1. \A j \in 1..Len(s) : s[j] \notin Fallible
      <4>1. \A i, j \in 1..Len(s) : s[i] \in Fallible /\ s[j] \in EffectKinds \cup {"again"} => i = j
        BY StepFacts DEF HandlerSteps
      <4> QED BY <2>2, <4>1 DEF EffectKinds, Fallible
    <3> QED BY <2>1, <3>1 DEF Accounts, Past
  <2> QED BY <2>1, <2>2, <2>3, <2>4 DEF Accounts
<1>9. CASE AskAgain
  <2> DEFINE s == HandlerSteps
  <2>1. /\ InHandler /\ UNCHANGED <<doing, call, verdicts, effects, events, outcome>> /\ at' = 1
        /\ Step = "again" /\ doing = "handler"
    BY <1>9 DEF AskAgain, InHandler
  <2>2. at \in 1..Len(s) /\ s[at] = "again" /\ s' = s /\ Recorded' = Recorded
    BY <1>0, <2>1, InHandlerFacts DEF HandlerSteps, Recorded
  <2>3. \A kinds : ~Past(kinds)'
    BY <2>1 DEF Past
  <2>4. outcome # "errvalue"
    <3>1. \A j \in 1..Len(s) : s[j] \notin Fallible
      <4>1. \A i, j \in 1..Len(s) : s[i] \in Fallible /\ s[j] \in EffectKinds \cup {"again"} => i = j
        BY StepFacts DEF HandlerSteps
      <4> QED BY <2>2, <4>1 DEF Fallible
    <3> QED BY <2>1, <3>1 DEF Accounts, Past
  <2> QED BY <2>1, <2>2, <2>3, <2>4 DEF Accounts
<1>10. CASE Return
  <2> DEFINE s == HandlerSteps
  <2>1. /\ UNCHANGED <<call, verdicts, at, effects, events>> /\ doing = "handler"
        /\ doing' = "body" /\ at > Len(s)
        /\ outcome' = IF outcome = "none" THEN "value" ELSE outcome
    BY <1>10 DEF Return, HandlerSteps
  <2>2. Recorded' = Recorded
    BY <2>1 DEF Recorded
  <2>3. effects # <<>> => events > Cardinality(Recorded)
    <3> SUFFICES ASSUME effects # <<>> PROVE Past({"event"})
      BY <2>1 DEF Accounts
    <3>1. \E j \in 1..Len(s) : s[j] \in EffectKinds \cup {"again"}
      BY <2>1 DEF Accounts, Past, EffectKinds
    <3>2. \E j \in 1..Len(s) : s[j] = "event"
      BY <3>1, StepFacts DEF HandlerSteps
    <3> QED BY <1>0, <2>1, <3>2 DEF Past
  <2> QED BY <2>1, <2>2, <2>3 DEF Accounts
<1>11. CASE AskFails
  <2> DEFINE s == HandlerSteps
  <2>1. /\ UNCHANGED <<call, verdicts, at, effects, events>> /\ doing = "handler"
        /\ doing' = "body" /\ outcome' = "errvalue" /\ InHandler /\ Step = "ask"
    BY <1>11 DEF AskFails, InHandler
  <2>2. at \in 1..Len(s) /\ s[at] = "ask" /\ Recorded' = Recorded
    BY <1>0, <2>1, InHandlerFacts DEF HandlerSteps, Recorded
  <2>3. \A i, j \in 1..Len(s) : s[i] \in Fallible /\ s[j] \in EffectKinds \cup {"again"} => i = j
    BY StepFacts DEF HandlerSteps
  <2>4. ~Past(EffectKinds)
    BY <2>2, <2>3 DEF Past, Fallible
  <2>5. ~\E j \in 1..Len(s) : s[j] \in {"stages", "again"}
    BY <2>2, <2>3 DEF Fallible, EffectKinds
  <2>6. effects = <<>>
    BY <2>1, <2>4, <2>5 DEF Accounts
  <2> QED BY <2>1, <2>2, <2>6 DEF Accounts
<1>12. CASE UNCHANGED capVars
  BY <1>12 DEF capVars, Accounts, Recorded, Past, HandlerSteps
<1> QED BY <1>1, <1>2, <1>3, <1>4, <1>5, <1>7, <1>8, <1>9, <1>10, <1>11, <1>12 DEF CapNext

\* Whatever functions, narrowings and calls there are, an effect of a checked
\* operation is granted by every cap between main and the call.
THEOREM EffectsAreGranted == CapSpec => []EffectsGranted
<1>1. CapInit => CapInv /\ Accounts
  BY NarrowingInit, GuardedInit, AccountsInit DEF CapInv
<1>2. CapInv /\ Accounts /\ [CapNext]_capVars => (CapInv /\ Accounts)'
  BY NarrowingStep, GuardedStep, AccountsStep DEF CapInv, Accounts
<1> QED BY <1>1, <1>2, CapInvMeans, PTL DEF CapSpec

\* A call that returns after it touched something is in the trace, whatever the
\* policies recorded of it.
THEOREM ReturnsAreRecorded == CapSpec => []ReturnedIsRecorded
<1>1. Accounts => ReturnedIsRecorded
  BY DEF Accounts, ReturnedIsRecorded, Recorded
<1> QED BY <1>1, AccountsInit, AccountsStep, PTL DEF CapSpec

-----------------------------------------------------------------------------
(* Policies.                                                               *)

ClauseKinds == {"when", "require", "deny", "audit", "limit"}

\* The positions of the clauses of one kind.
At(p, kind) == {i \in 1..Len(Clauses(p)) : Clauses(p)[i] = kind}

\* As many clauses of one kind.
Times(kind, n) == [i \in 1..n |-> kind]

LEMMA TimesFacts ==
    ASSUME NEW kind \in ClauseKinds, NEW n \in Nat
    PROVE  /\ Times(kind, n) \in Seq(ClauseKinds) /\ Len(Times(kind, n)) = n
           /\ \A i \in 1..n : Times(kind, n)[i] = kind
<1>1. Times(kind, n) \in [1..n -> ClauseKinds]
  BY DEF Times
<1>2. Times(kind, n) \in Seq(ClauseKinds) /\ Len(Times(kind, n)) = n
  BY <1>1, SeqDef
<1> QED BY <1>2 DEF Times

LEMMA AppendedKind ==
    ASSUME NEW s \in Seq(ClauseKinds), NEW kind \in ClauseKinds, NEW n \in Nat
    PROVE  LET t == s \o Times(kind, n)
           IN  /\ t \in Seq(ClauseKinds) /\ Len(t) = Len(s) + n
               /\ \A i \in 1..(Len(s) + n) : t[i] = IF i <= Len(s) THEN s[i] ELSE kind
<1> DEFINE u == Times(kind, n)
<1>1. u \in Seq(ClauseKinds) /\ Len(u) = n /\ \A i \in 1..n : u[i] = kind
  BY TimesFacts
<1>2. Len(s) \in Nat
  OBVIOUS
<1> HIDE DEF u
<1>3. /\ s \o u \in Seq(ClauseKinds) /\ Len(s \o u) = Len(s) + Len(u)
      /\ \A i \in 1..(Len(s) + Len(u)) : (s \o u)[i] = IF i <= Len(s) THEN s[i] ELSE u[i - Len(s)]
  BY <1>1, ConcatProperties
<1>4. \A i \in 1..(Len(s) + n) : (s \o u)[i] = IF i <= Len(s) THEN s[i] ELSE kind
  BY <1>1, <1>2, <1>3
<1> QED BY <1>1, <1>3, <1>4 DEF u

LEMMA ClausesFacts ==
    ASSUME NEW p, {p.when, p.require, p.deny, p.audit, p.limit} \subseteq Nat
    PROVE  /\ Clauses(p) \in Seq(ClauseKinds)
           /\ At(p, "require") = (p.when + 1)..(p.when + p.require)
           /\ At(p, "deny") = (p.when + p.require + 1)..(p.when + p.require + p.deny)
<1> DEFINE when == p.when
           require == p.require
           deny == p.deny
           audit == p.audit
           limit == p.limit
           a == Times("when", when)
           ab == a \o Times("require", require)
           abc == ab \o Times("deny", deny)
           abcd == abc \o Times("audit", audit)
           all == abcd \o Times("limit", limit)
<1>1. /\ when \in Nat /\ require \in Nat /\ deny \in Nat /\ audit \in Nat /\ limit \in Nat
      /\ {"when", "require", "deny", "audit", "limit"} \subseteq ClauseKinds
  BY DEF ClauseKinds
<1>2. Clauses(p) = all
  BY DEF Clauses, Times
<1> HIDE DEF when, require, deny, audit, limit
<1>3. a \in Seq(ClauseKinds) /\ Len(a) = when /\ \A i \in 1..when : a[i] = "when"
  BY <1>1, TimesFacts
<1> HIDE DEF a
<1>4. /\ ab \in Seq(ClauseKinds) /\ Len(ab) = when + require
      /\ \A i \in 1..(when + require) : ab[i] = IF i <= when THEN a[i] ELSE "require"
  <2>1. a \in Seq(ClauseKinds) /\ "require" \in ClauseKinds /\ require \in Nat
    BY <1>1, <1>3
  <2>2. /\ ab \in Seq(ClauseKinds) /\ Len(ab) = Len(a) + require
        /\ \A i \in 1..(Len(a) + require) :
              ab[i] = IF i <= Len(a) THEN a[i] ELSE "require"
    BY <2>1, AppendedKind
  <2> QED BY <1>3, <2>2
<1> HIDE DEF ab
<1>5. /\ abc \in Seq(ClauseKinds) /\ Len(abc) = when + require + deny
      /\ \A i \in 1..(when + require + deny) :
            abc[i] = IF i <= when + require THEN ab[i] ELSE "deny"
  <2>1. ab \in Seq(ClauseKinds) /\ "deny" \in ClauseKinds /\ deny \in Nat
    BY <1>1, <1>4
  <2>2. /\ abc \in Seq(ClauseKinds) /\ Len(abc) = Len(ab) + deny
        /\ \A i \in 1..(Len(ab) + deny) :
              abc[i] = IF i <= Len(ab) THEN ab[i] ELSE "deny"
    BY <2>1, AppendedKind
  <2> QED BY <1>4, <2>2
<1> HIDE DEF abc
<1>6. /\ abcd \in Seq(ClauseKinds) /\ Len(abcd) = when + require + deny + audit
      /\ \A i \in 1..(when + require + deny + audit) :
            abcd[i] = IF i <= when + require + deny THEN abc[i] ELSE "audit"
  <2>1. abc \in Seq(ClauseKinds) /\ "audit" \in ClauseKinds /\ audit \in Nat
    BY <1>1, <1>5
  <2>2. /\ abcd \in Seq(ClauseKinds) /\ Len(abcd) = Len(abc) + audit
        /\ \A i \in 1..(Len(abc) + audit) :
              abcd[i] = IF i <= Len(abc) THEN abc[i] ELSE "audit"
    BY <2>1, AppendedKind
  <2> QED BY <1>5, <2>2
<1> HIDE DEF abcd
<1>7. /\ all \in Seq(ClauseKinds) /\ Len(all) = when + require + deny + audit + limit
      /\ \A i \in 1..(when + require + deny + audit + limit) :
            all[i] = IF i <= when + require + deny + audit THEN abcd[i] ELSE "limit"
  <2>1. abcd \in Seq(ClauseKinds) /\ "limit" \in ClauseKinds /\ limit \in Nat
    BY <1>1, <1>6
  <2>2. /\ all \in Seq(ClauseKinds) /\ Len(all) = Len(abcd) + limit
        /\ \A i \in 1..(Len(abcd) + limit) :
              all[i] = IF i <= Len(abcd) THEN abcd[i] ELSE "limit"
    BY <2>1, AppendedKind
  <2> QED BY <1>6, <2>2
<1> HIDE DEF all
<1>8. \A i \in 1..Len(all) :
         all[i] = IF i <= when THEN "when" ELSE IF i <= when + require THEN "require"
                  ELSE IF i <= when + require + deny THEN "deny"
                  ELSE IF i <= when + require + deny + audit THEN "audit" ELSE "limit"
  BY <1>1, <1>3, <1>4, <1>5, <1>6, <1>7
<1>9. /\ {i \in 1..Len(all) : all[i] = "require"} = (when + 1)..(when + require)
      /\ {i \in 1..Len(all) : all[i] = "deny"}
            = (when + require + 1)..(when + require + deny)
  BY <1>1, <1>7, <1>8
<1> QED BY <1>2, <1>7, <1>9 DEF At, when, require, deny

LEMMA CountClauses ==
    ASSUME NEW p, {p.when, p.require, p.deny, p.audit, p.limit} \subseteq Nat
    PROVE  /\ IsFiniteSet(At(p, "require")) /\ Cardinality(At(p, "require")) = p.require
           /\ IsFiniteSet(At(p, "deny")) /\ Cardinality(At(p, "deny")) = p.deny
<1>1. /\ At(p, "require") = (p.when + 1)..(p.when + p.require)
      /\ At(p, "deny") = (p.when + p.require + 1)..(p.when + p.require + p.deny)
  BY ClausesFacts
<1>2. ASSUME NEW k \in Nat, NEW n \in Nat
      PROVE  IsFiniteSet((k + 1)..(k + n)) /\ Cardinality((k + 1)..(k + n)) = n
  <2>1. k + 1 \in Int /\ k + n \in Int
    OBVIOUS
  <2>2. /\ IsFiniteSet((k + 1)..(k + n))
        /\ Cardinality((k + 1)..(k + n))
              = IF k + 1 > k + n THEN 0 ELSE (k + n) - (k + 1) + 1
    BY <2>1, FS_Interval
  <2> QED BY <2>2
<1>3. p.when \in Nat /\ p.require \in Nat /\ p.deny \in Nat /\ p.when + p.require \in Nat
  OBVIOUS
<1>4. /\ IsFiniteSet((p.when + 1)..(p.when + p.require))
      /\ Cardinality((p.when + 1)..(p.when + p.require)) = p.require
  BY <1>2, <1>3
<1>5. /\ IsFiniteSet((p.when + p.require + 1)..(p.when + p.require + p.deny))
      /\ Cardinality((p.when + p.require + 1)..(p.when + p.require + p.deny)) = p.deny
  BY <1>2, <1>3
<1> QED BY <1>1, <1>4, <1>5

\* What has been heard of a policy.
HeardAt(n, i) == {v \in verdicts : v.policy = n /\ v.at = i}
Concerns(n) == Active(Policies[n]) /\ PolicyCovers(Policies[n], call.module, call.op)
TurnedAway(n) == \E v \in verdicts : v.policy = n /\ v.kind = "when" /\ v.outcome # "true"
LetPass(n, i) == \E v \in verdicts : v.policy = n /\ v.at = i /\ Verdict(v.kind, v.outcome) = "next"
Settled(n) == TurnedAway(n) \/ \A i \in 1..Len(Clauses(Policies[n])) : LetPass(n, i)

\* A verdict is that of a clause, and a clause has one at most.
VerdictsTell ==
    /\ \A v \in verdicts :
        /\ v.policy \in 1..Len(Policies) /\ v.at \in 1..Len(Clauses(Policies[v.policy]))
        /\ v.kind = Clauses(Policies[v.policy])[v.at]
    /\ \A v, w \in verdicts : v.policy = w.policy /\ v.at = w.at => v = w

Heard ==
    /\ clause \in [policy : Nat \ {0}, at : Nat \ {0}]
    /\ VerdictsTell
    /\ doing = "policy" =>
          /\ \A v \in verdicts :
                v.policy < clause.policy \/ (v.policy = clause.policy /\ v.at < clause.at)
          /\ clause.policy <= Len(Policies) /\ Concerns(clause.policy) =>
                \A i \in 1..(clause.at - 1) : LetPass(clause.policy, i)
    /\ \A n \in 1..Len(Policies) : n < clause.policy /\ Concerns(n) => Settled(n)
    /\ /\ Dispatched(call.module, call.op)
       /\ doing \in {"args", "check", "handler"} \/ effects # <<>>
       => clause.policy > Len(Policies)

LEMMA PolicyCounts ==
    ASSUME NEW n \in 1..Len(Policies)
    PROVE  LET p == Policies[n]
           IN  {p.when, p.require, p.deny, p.audit, p.limit} \subseteq Nat
BY CapsAssumption DEF IsList, Members

\* As many verdicts on a kind of clause as there are clauses of it, once all of
\* them let the call pass.
LEMMA AllHeard ==
    ASSUME VerdictsTell, NEW n \in 1..Len(Policies), NEW kind,
           IsFiniteSet(At(Policies[n], kind)),
           \A i \in 1..Len(Clauses(Policies[n])) : LetPass(n, i)
    PROVE  LET said == {v \in verdicts : v.policy = n /\ v.kind = kind}
           IN  /\ Cardinality(said) = Cardinality(At(Policies[n], kind))
               /\ \A v \in said : Verdict(v.kind, v.outcome) = "next"
<1> DEFINE said == {v \in verdicts : v.policy = n /\ v.kind = kind}
           R == At(Policies[n], kind)
           f == [i \in R |-> CHOOSE v \in said : v.at = i]
<1>1. ASSUME NEW i \in R PROVE \E v \in said : v.at = i
  <2>1. i \in 1..Len(Clauses(Policies[n])) /\ Clauses(Policies[n])[i] = kind
    BY DEF At
  <2>2. PICK v \in verdicts : v.policy = n /\ v.at = i
    BY <2>1 DEF LetPass
  <2>3. v.kind = kind
    BY <2>1, <2>2 DEF VerdictsTell
  <2> QED BY <2>2, <2>3
<1>2. \A i \in R : f[i] \in said /\ f[i].at = i
  BY <1>1
<1>3. \A v \in said : v.at \in R
  BY DEF VerdictsTell, At
<1>4. \A v, w \in said : v.at = w.at => v = w
  BY DEF VerdictsTell
<1>5. f \in Bijection(R, said)
  <2> HIDE DEF said, R
  <2>1. f \in [R -> said]
    BY <1>2
  <2> HIDE DEF f
  <2>2. \A i, j \in R : f[i] = f[j] => i = j
    BY <1>2
  <2>3. \A v \in said : \E i \in R : f[i] = v
    BY <1>2, <1>3, <1>4
  <2> QED BY <2>1, <2>2, <2>3 DEF Bijection, Injection, Surjection, IsInjective
<1>6. Cardinality(said) = Cardinality(R)
  <2> HIDE DEF said, R, f
  <2>1. ExistsBijection(R, said)
    BY <1>5 DEF ExistsBijection
  <2> QED BY <2>1, FS_Bijection DEF R
<1>7. ASSUME NEW v \in said PROVE Verdict(v.kind, v.outcome) = "next"
  <2>1. v.at \in 1..Len(Clauses(Policies[n]))
    BY DEF VerdictsTell
  <2>2. PICK w \in verdicts : w.policy = n /\ w.at = v.at /\ Verdict(w.kind, w.outcome) = "next"
    BY <2>1 DEF LetPass
  <2>3. w = v
    BY <2>2 DEF VerdictsTell
  <2> QED BY <2>2, <2>3
<1> QED BY <1>6, <1>7

LEMMA HeardMeans == Heard => PoliciesHold
<1> SUFFICES ASSUME Heard, Dispatched(call.module, call.op), effects # <<>>,
                    NEW n \in DOMAIN Policies, Concerns(n)
             PROVE  Heeded(n)
  BY DEF PoliciesHold, Concerns
<1>1. n \in 1..Len(Policies)
  BY CapsAssumption DEF IsList
<1>2. Settled(n)
  BY <1>1 DEF Heard
<1>3. CASE TurnedAway(n)
  BY <1>3 DEF TurnedAway, Heeded
<1>4. CASE \A i \in 1..Len(Clauses(Policies[n])) : LetPass(n, i)
  <2> DEFINE told(kind) == {v \in verdicts : v.policy = n /\ v.kind = kind}
             said(kind) == {v \in {w \in verdicts : w.policy = n} : v.kind = kind}
  <2>1. \A kind : told(kind) = said(kind)
    OBVIOUS
  <2>2. \A kind : IsFiniteSet(At(Policies[n], kind)) =>
            /\ Cardinality(told(kind)) = Cardinality(At(Policies[n], kind))
            /\ \A v \in told(kind) : Verdict(v.kind, v.outcome) = "next"
    BY <1>1, <1>4, AllHeard DEF Heard
  <2> HIDE DEF told
  <2>3. /\ Cardinality(told("require")) = Policies[n].require
        /\ Cardinality(told("deny")) = Policies[n].deny
        /\ \A v \in told("require") \cup told("deny") : Verdict(v.kind, v.outcome) = "next"
    BY <1>1, <2>2, PolicyCounts, CountClauses
  <2>4. /\ \A v \in told("require") : v.outcome = "true"
        /\ \A v \in told("deny") : v.outcome # "true"
    BY <2>3 DEF Verdict, told
  <2> QED BY <2>1, <2>3, <2>4 DEF Heeded
<1> QED BY <1>2, <1>3, <1>4 DEF Settled

LEMMA HeardInit == CapInit => Heard
<1> SUFFICES ASSUME CapInit PROVE Heard
  OBVIOUS
<1>1. clause = [policy |-> 1, at |-> 1] /\ verdicts = {} /\ doing = "body" /\ effects = <<>>
  BY DEF CapInit
<1> QED BY <1>1 DEF Heard, VerdictsTell

LEMMA HeardAfresh ==
    ASSUME clause' = [policy |-> 1, at |-> 1], verdicts' = {}, effects' = <<>>,
           Dispatched(call'.module, call'.op) => doing' \notin {"args", "check", "handler"}
    PROVE  Heard'
BY DEF Heard, VerdictsTell

\* What leaves the call and its verdicts alone.
LEMMA HeardKept ==
    ASSUME Heard, UNCHANGED <<call, clause, verdicts>>, doing' # "policy",
           /\ Dispatched(call.module, call.op)
           /\ doing' \in {"args", "check", "handler"} \/ effects' # <<>>
           => clause.policy > Len(Policies)
    PROVE  Heard'
BY DEF Heard, VerdictsTell, Concerns, Settled, TurnedAway, LetPass

LEMMA HeardClause ==
    ASSUME Heard, effects = <<>>, NEW o \in ClauseOutcomes, Clause(o),
           NEW n \in Nat \ {0}, NEW i \in Nat \ {0}, clause = [policy |-> n, at |-> i]
    PROVE  Heard'
<1> DEFINE kind == Clauses(Policies[n])[i]
           v == [policy |-> n, at |-> i, kind |-> kind, outcome |-> o]
<1>1. /\ doing = "policy" /\ n \in 1..Len(Policies) /\ i \in 1..Len(Clauses(Policies[n]))
      /\ Concerns(n) /\ verdicts' = verdicts \cup {v} /\ UNCHANGED <<call, effects>>
      /\ clause' = CASE Verdict(kind, o) = "skip" -> [policy |-> n + 1, at |-> 1]
                     [] Verdict(kind, o) = "next" -> [clause EXCEPT !.at = @ + 1]
                     [] Verdict(kind, o) = "refuse" -> clause
      /\ doing' = IF Verdict(kind, o) = "refuse" THEN "raised" ELSE doing
      /\ Len(Policies) \in Nat /\ Len(Clauses(Policies[n])) \in Nat
  <2>1. Len(Policies) \in Nat /\ n \in 1..Len(Policies)
    BY CapsAssumption DEF Clause, ClauseDue, Heard, IsList
  <2>2. Len(Clauses(Policies[n])) \in Nat
    BY <2>1, PolicyCounts, ClausesFacts
  <2>3. /\ doing = "policy" /\ Concerns(n) /\ i \in 1..Len(Clauses(Policies[n]))
        /\ CurrentPolicy = Policies[n] /\ Clauses(CurrentPolicy)[clause.at] = kind
    BY <2>2 DEF Clause, ClauseDue, CurrentPolicy, Concerns
  <2> QED BY <2>1, <2>2, <2>3 DEF Clause
<1>2. n \in Nat /\ n > 0 /\ i \in Nat /\ i > 0 /\ clause = [policy |-> n, at |-> i]
  OBVIOUS
<1>3. v.policy = n /\ v.at = i /\ v.kind = kind /\ v.outcome = o
  OBVIOUS
<1>4. Verdict(kind, o) \in {"skip", "next", "refuse"}
  BY DEF Verdict
<1> HIDE DEF v, kind
<1>5. \A w \in verdicts : w.policy < n \/ (w.policy = n /\ w.at < i)
  BY <1>1, <1>2 DEF Heard
<1>6. VerdictsTell'
  <2>1. \A w \in verdicts : ~(w.policy = n /\ w.at = i)
    BY <1>2, <1>5
  <2>2. VerdictsTell
    BY DEF Heard
  <2>3. kind = Clauses(Policies[n])[i]
    BY DEF kind
  <2> QED BY <1>1, <1>3, <2>1, <2>2, <2>3 DEF VerdictsTell
<1>7. /\ \A m, j : LetPass(m, j) => LetPass(m, j)'
      /\ \A m : Settled(m) => Settled(m)' /\ \A j : Concerns(j)' <=> Concerns(j)
  BY <1>1 DEF LetPass, Settled, TurnedAway, Concerns
<1>8. \A m \in 1..Len(Policies) : m < n /\ Concerns(m) => Settled(m)
  BY <1>2 DEF Heard
<1>9. CASE Verdict(kind, o) = "refuse"
  <2>1. clause' = clause /\ doing' = "raised" /\ effects' = <<>>
    BY <1>1, <1>9
  <2>2. \A m \in 1..Len(Policies) : m < n /\ Concerns(m)' => Settled(m)'
    BY <1>1, <1>8 DEF Concerns, Settled, TurnedAway, LetPass
  <2> QED BY <1>2, <1>6, <2>1, <2>2 DEF Heard
<1>10. CASE Verdict(kind, o) = "next"
  <2>1. clause' = [policy |-> n, at |-> i + 1] /\ doing' = "policy" /\ effects' = <<>>
    BY <1>1, <1>2, <1>10
  <2>2. LetPass(n, i)'
    BY <1>1, <1>3, <1>10 DEF LetPass
  <2>3. \A j \in 1..(i - 1) : LetPass(n, j)
    BY <1>1, <1>2 DEF Heard
  <2>4. \A j \in 1..i : LetPass(n, j)'
    BY <1>2, <1>7, <2>2, <2>3
  <2>5. \A w \in verdicts' : w.policy < n \/ (w.policy = n /\ w.at < i + 1)
    BY <1>1, <1>2, <1>3, <1>5, <1>6 DEF VerdictsTell
  <2>6. \A m \in 1..Len(Policies) : m < n /\ Concerns(m)' => Settled(m)'
    BY <1>1, <1>8 DEF Concerns, Settled, TurnedAway, LetPass
  <2> QED BY <1>2, <1>6, <2>1, <2>4, <2>5, <2>6 DEF Heard
<1>11. CASE Verdict(kind, o) = "skip"
  <2>1. clause' = [policy |-> n + 1, at |-> 1] /\ doing' = "policy" /\ effects' = <<>>
    BY <1>1, <1>11
  <2>2. kind = "when" /\ o # "true"
    BY <1>11 DEF Verdict
  <2>3. Settled(n)'
    BY <1>1, <1>3, <2>2 DEF Settled, TurnedAway
  <2>4. \A w \in verdicts' : w.policy < n + 1
    BY <1>1, <1>2, <1>3, <1>5, <1>6 DEF VerdictsTell
  <2>5. ASSUME NEW m \in 1..Len(Policies), m < n + 1, Concerns(m)' PROVE Settled(m)'
    <3>1. m = n \/ m < n
      BY <1>2, <2>5
    <3>2. CASE m < n
      <4>1. Concerns(m)
        BY <1>1, <2>5 DEF Concerns
      <4> QED BY <1>1, <1>8, <3>2, <4>1 DEF Settled, TurnedAway, LetPass
    <3> QED BY <2>3, <3>1, <3>2
  <2> QED BY <1>2, <1>6, <2>1, <2>4, <2>5 DEF Heard
<1> QED BY <1>4, <1>9, <1>10, <1>11

LEMMA HeardPolicy ==
    ASSUME Heard, effects = <<>>, NextPolicy
    PROVE  Heard'
<1> DEFINE n == clause.policy
           i == clause.at
<1>1. /\ doing = "policy" /\ n \in 1..Len(Policies) /\ ~ClauseDue
      /\ clause' = [policy |-> n + 1, at |-> 1]
      /\ UNCHANGED <<doing, call, verdicts, effects>>
  BY CapsAssumption DEF NextPolicy, Heard, IsList
<1>2. n \in Nat /\ n > 0 /\ i \in Nat /\ i > 0
  BY DEF Heard
<1>3. Concerns(n) => Settled(n)
  <2> SUFFICES ASSUME Concerns(n) PROVE Settled(n)
    OBVIOUS
  <2>1. \A j \in 1..(i - 1) : LetPass(n, j)
    BY <1>1 DEF Heard
  <2>2. Len(Clauses(Policies[n])) \in Nat
    BY <1>1, PolicyCounts, ClausesFacts
  <2>3. i > Len(Clauses(Policies[n]))
    BY <1>1, <1>2, <2>2 DEF ClauseDue, Concerns, CurrentPolicy
  <2> QED BY <1>2, <2>1, <2>2, <2>3 DEF Settled
<1>4. \A w \in verdicts : w.policy < n + 1
  BY <1>1, <1>2 DEF Heard, VerdictsTell
<1>5. \A m \in 1..Len(Policies) : m < n + 1 /\ Concerns(m) => Settled(m)
  BY <1>2, <1>3 DEF Heard
<1> HIDE DEF n, i
<1>6. VerdictsTell'
  BY <1>1 DEF Heard, VerdictsTell
<1>7. \A m : (Concerns(m)' <=> Concerns(m)) /\ (Settled(m)' <=> Settled(m))
  BY <1>1 DEF Concerns, Settled, TurnedAway, LetPass
<1>8. effects' = <<>> /\ doing' = "policy" /\ clause' = [policy |-> n + 1, at |-> 1]
  BY <1>1
<1> QED BY <1>1, <1>2, <1>4, <1>5, <1>6, <1>7, <1>8 DEF Heard

LEMMA HeardStep ==
    ASSUME Accounts, Heard, [CapNext]_capVars
    PROVE  Heard'
<1>1. CASE (\E s \in Signatures : Enter(s)) \/ EnterWithoutCap \/ Shadow \/ Leave
           \/ (\E n \in 1..Len(stack) : Unwind(n)) \/ (\E c \in Narrowings : Narrow(c))
           \/ (\E c \in Calls : Call(c))
  <2>1. /\ verdicts' = {} /\ clause' = [policy |-> 1, at |-> 1] /\ effects' = <<>>
        /\ Dispatched(call'.module, call'.op) => doing' \notin {"args", "check", "handler"}
    BY <1>1 DEF Enter, EnterWithoutCap, Shadow, Leave, Unwind, Narrow, Call, DropCall
  <2> QED BY <2>1, HeardAfresh
<1>2. CASE \E o \in ClauseOutcomes : Clause(o)
  <2>1. doing = "policy" /\ effects = <<>>
    BY <1>2 DEF Clause, ClauseDue, Accounts
  <2>2. PICK n \in Nat \ {0}, i \in Nat \ {0} : clause = [policy |-> n, at |-> i]
    BY DEF Heard
  <2> QED BY <1>2, <2>1, <2>2, HeardClause
<1>3. CASE NextPolicy
  BY <1>3, HeardPolicy DEF Accounts, NextPolicy
<1>4. CASE PoliciesDone
  <2>1. UNCHANGED <<call, clause, verdicts>> /\ doing' = "args" /\ clause.policy > Len(Policies)
    BY <1>4 DEF PoliciesDone, callVars
  <2> QED BY <2>1, HeardKept
<1>5. CASE Raise \/ Refuse \/ ArgsRead \/ Pass
  <2>1. /\ UNCHANGED <<call, clause, verdicts, effects>> /\ doing' # "policy"
        /\ doing' \in {"args", "check", "handler"} => doing \in {"args", "check", "handler"}
    BY <1>5 DEF Raise, Refuse, ArgsRead, Pass, Fail, callVars
  <2> QED BY <2>1, HeardKept DEF Heard
<1>6. CASE Examine \/ Act \/ SendFails \/ AskFails \/ Stage \/ StagesDone \/ Record
           \/ AskAgain \/ Decided \/ Return
  <2>1. /\ UNCHANGED <<call, clause, verdicts>> /\ doing' # "policy"
        /\ doing = "handler"
    BY <1>6 DEF Examine, Act, SendFails, AskFails, Stage, StagesDone, Record, AskAgain,
                Decided, Return, Continue, InHandler
  <2> QED BY <2>1, HeardKept DEF Heard
<1>7. CASE UNCHANGED capVars
  BY <1>7 DEF capVars, Heard, VerdictsTell, Concerns, Settled, TurnedAway, LetPass
<1> QED BY <1>1, <1>2, <1>3, <1>4, <1>5, <1>6, <1>7 DEF CapNext

\* Every active policy about the operation has been heard in full, or turned
\* the call away, before its first effect.
THEOREM PoliciesAreHeard == CapSpec => []PoliciesHold
<1>1. CapInit => Accounts /\ Heard
  BY AccountsInit, HeardInit
<1>2. Accounts /\ Heard /\ [CapNext]_capVars => (Accounts /\ Heard)'
  BY AccountsStep, HeardStep
<1> QED BY <1>1, <1>2, HeardMeans, PTL DEF CapSpec

-----------------------------------------------------------------------------
(* Named arguments.                                                        *)

\* The name of an argument that is written without one.
Positional == ""

\* Names that tell parameters apart, and from positional arguments.
Apart(names) ==
    /\ Len(names) \in Nat /\ DOMAIN names = 1..Len(names)
    /\ \A i \in DOMAIN names : names[i] # Positional
    /\ \A i, j \in DOMAIN names : names[i] = names[j] => i = j

LEMMA OneApart ==
    ASSUME NEW a, a # Positional
    PROVE  Apart(<<a>>)
<1>1. Len(<<a>>) = 1 /\ DOMAIN <<a>> = 1..1 /\ <<a>>[1] = a
  OBVIOUS
<1>2. \A i \in 1..1 : i = 1
  OBVIOUS
<1> QED BY <1>1, <1>2 DEF Apart

LEMMA TwoApart ==
    ASSUME NEW a, NEW b, Positional \notin {a, b}, a # b
    PROVE  Apart(<<a, b>>)
<1>1. Len(<<a, b>>) = 2 /\ DOMAIN <<a, b>> = 1..2 /\ <<a, b>>[1] = a /\ <<a, b>>[2] = b
  OBVIOUS
<1>2. \A i \in 1..2 : i = 1 \/ i = 2
  OBVIOUS
<1> QED BY <1>1, <1>2 DEF Apart

LEMMA ThreeApart ==
    ASSUME NEW a, NEW b, NEW c, Positional \notin {a, b, c}, a # b, b # c, a # c
    PROVE  Apart(<<a, b, c>>)
<1>1. /\ Len(<<a, b, c>>) = 3 /\ DOMAIN <<a, b, c>> = 1..3
      /\ <<a, b, c>>[1] = a /\ <<a, b, c>>[2] = b /\ <<a, b, c>>[3] = c
  OBVIOUS
<1>2. \A i \in 1..3 : i = 1 \/ i = 2 \/ i = 3
  OBVIOUS
<1> QED BY <1>1, <1>2 DEF Apart

LEMMA ParamNamesApart ==
    ASSUME NEW module, NEW op
    PROVE  Apart(ParamNames(module, op))
<1>1. /\ Apart(<<>>)
      /\ \A a \in {"msg", "key", "path", "url", "cmd", "prompt", "text", "image", "target",
                   "bucket", "any", "d", "port", "max_rounds"} : Apart(<<a>>)
  <2>1. Apart(<<>>)
    BY DEF Apart
  <2>2. ASSUME NEW a \in {"msg", "key", "path", "url", "cmd", "prompt", "text", "image", "target",
                          "bucket", "any", "d", "port", "max_rounds"}
        PROVE  Apart(<<a>>)
    <3>1. a # Positional
      BY DEF Positional
    <3> QED BY <3>1, OneApart
  <2> QED BY <2>1, <2>2, Zenon
<1>2. /\ Apart(<<"key", "value">>) /\ Apart(<<"from", "to">>) /\ Apart(<<"path", "content">>)
      /\ Apart(<<"system", "model">>) /\ Apart(<<"session", "prompt">>)
      /\ Apart(<<"kind", "fields">>) /\ Apart(<<"image", "name">>)
      /\ Apart(<<"context", "tag">>) /\ Apart(<<"source", "target">>)
      /\ Apart(<<"bucket", "object">>)
  BY TwoApart, Zenon DEF Positional
<1>3. /\ Apart(<<"url", "body", "content_type">>) /\ Apart(<<"system", "dir", "port">>)
      /\ Apart(<<"prompt", "choices", "retries">>) /\ Apart(<<"bucket", "object", "content">>)
  BY ThreeApart, Zenon DEF Positional
<1>4. Apart(AnyNames)
  BY <1>1, Zenon DEF AnyNames
<1>5. Apart(EnvNames(op)) /\ Apart(FsNames(op)) /\ Apart(MinioNames(op))
  BY <1>1, <1>2, <1>3, <1>4, Zenon DEF EnvNames, FsNames, MinioNames
<1>6. Apart(DockerNames(op))
  BY <1>1, <1>2, Zenon DEF DockerNames
<1>7. Apart(AiNames(op))
  BY <1>1, <1>2, <1>3, <1>4, Zenon DEF AiNames
<1>8. QED BY <1>1, <1>2, <1>3, <1>4, <1>5, <1>6, <1>7, Zenon DEF ParamNames

-----------------------------------------------------------------------------
\* The slots after k arguments: what is in one has its name, and every argument
\* is in one.
Seated(names, args, s, k) ==
    s # <<>> =>
        /\ s = [i \in DOMAIN names |-> s[i]]
        /\ \A i \in DOMAIN names : s[i] \in 0..k /\ (s[i] # 0 => names[i] = args[s[i]].name)
        /\ \A j \in 1..k : \E i \in DOMAIN names : s[i] = j

LEMMA SeatSeats ==
    ASSUME NEW names, Apart(names), NEW args, NEW n \in Nat, NEW k \in 1..n,
           args[k].name # Positional, NEW s, Seated(names, args, s, k - 1)
    PROVE  Seated(names, args, Seat(names, args, k, s), k)
<1> DEFINE new == Seat(names, args, k, s)
           named == {i \in DOMAIN names : names[i] = args[k].name}
           pick == {i \in named : s[i] = 0}
           p == CHOOSE i \in pick : TRUE
<1>1. new = IF s = <<>> \/ pick = {} THEN <<>> ELSE [s EXCEPT ![p] = k]
  <2> DEFINE free == {i \in DOMAIN names : s[i] = 0 /\ \A j \in 1..(i - 1) : s[j] # 0}
             q == IF args[k].name = "" THEN free ELSE pick
  <2>1. new = IF s = <<>> \/ q = {} THEN <<>> ELSE [s EXCEPT ![CHOOSE i \in q : TRUE] = k]
    BY Zenon DEF Seat
  <2>2. q = pick
    BY Zenon DEF Positional
  <2> HIDE DEF q, pick, new
  <2> QED BY <2>1, <2>2 DEF p
<1>2. SUFFICES ASSUME s # <<>>, pick # {} PROVE Seated(names, args, new, k)
  BY <1>1 DEF Seated
<1>3. p \in DOMAIN names /\ names[p] = args[k].name /\ s[p] = 0
  <2>1. \E i : i \in pick
    BY <1>2
  <2>2. p \in pick
    BY <2>1, Zenon
  <2> QED BY <2>2
<1>4. new = [s EXCEPT ![p] = k]
  BY <1>1, <1>2
<1> HIDE DEF p, new, pick, named
<1>5. /\ s = [i \in DOMAIN names |-> s[i]]
      /\ \A i \in DOMAIN names : s[i] \in 0..(k - 1) /\ (s[i] # 0 => names[i] = args[s[i]].name)
      /\ \A j \in 1..(k - 1) : \E i \in DOMAIN names : s[i] = j
  BY <1>2 DEF Seated
<1>6. \A i \in DOMAIN names : new[i] = IF i = p THEN k ELSE s[i]
  BY <1>4, <1>5
<1>7. new = [i \in DOMAIN names |-> new[i]]
  BY <1>4, <1>5
<1>8. ASSUME NEW i \in DOMAIN names
      PROVE  new[i] \in 0..k /\ (new[i] # 0 => names[i] = args[new[i]].name)
  <2>1. CASE i = p
    <3>1. new[i] = k /\ k \in 0..k
      BY <1>6, <1>8, <2>1
    <3>2. names[i] = args[k].name
      BY <1>3, <2>1
    <3> QED BY <3>1, <3>2
  <2>2. CASE i # p
    <3>1. new[i] = s[i] /\ s[i] \in 0..(k - 1)
      BY <1>5, <1>6, <1>8, <2>2
    <3>2. s[i] \in 0..k
      BY <3>1
    <3>3. s[i] # 0 => names[i] = args[s[i]].name
      BY <1>5, <1>8
    <3> QED BY <3>1, <3>2, <3>3
  <2> QED BY <2>1, <2>2
<1>9. ASSUME NEW j \in 1..k PROVE \E i \in DOMAIN names : new[i] = j
  <2>0. p \in DOMAIN names /\ s[p] = 0
    BY <1>3
  <2>1. CASE j = k
    <3>1. new[p] = k
      BY <1>6, <2>0
    <3> QED BY <2>0, <2>1, <3>1
  <2>2. CASE j # k
    <3>0. j \in 1..(k - 1)
      BY <1>9, <2>2
    <3>1. PICK i \in DOMAIN names : s[i] = j
      BY <1>5, <3>0
    <3>2. i # p
      BY <2>0, <3>0, <3>1
    <3> QED BY <1>6, <3>1, <3>2
  <2> QED BY <2>1, <2>2
<1>10. QED BY <1>7, <1>8, <1>9 DEF Seated

\* The slots after each of the first n arguments.
Seating(names, args, u, n) ==
    /\ u[0] = [i \in DOMAIN names |-> 0]
    /\ \A k \in 1..n : u[k] = Seat(names, args, k, u[k - 1])

SeatsUpTo(names, args, u, n) ==
    u = [k \in 0..n |-> IF k = 0 THEN [i \in DOMAIN names |-> 0]
                        ELSE Seat(names, args, k, u[k - 1])]

LEMMA SeatingExists ==
    ASSUME NEW names, NEW args, NEW n \in Nat
    PROVE  SeatsUpTo(names, args, CHOOSE u : SeatsUpTo(names, args, u, n), n)
<1> DEFINE E == {m \in 0..n : \E u : SeatsUpTo(names, args, u, m)}
           empty == [i \in DOMAIN names |-> 0]
<1>1. 0 \in E
  <2> DEFINE u == [k \in 0..0 |-> empty]
  <2>1. 0..0 = {0}
    OBVIOUS
  <2>2. u = [k \in 0..0 |-> IF k = 0 THEN empty ELSE Seat(names, args, k, u[k - 1])]
    BY <2>1
  <2>3. SeatsUpTo(names, args, u, 0)
    BY <2>2 DEF SeatsUpTo
  <2> QED BY <2>3
<1>2. ASSUME NEW m \in 1..n, m - 1 \in E PROVE m \in E
  <2>1. PICK v : SeatsUpTo(names, args, v, m - 1)
    BY <1>2
  <2> DEFINE u == [k \in 0..m |-> IF k = m THEN Seat(names, args, m, v[m - 1]) ELSE v[k]]
  <2>2. ASSUME NEW k \in 0..m
        PROVE  u[k] = IF k = 0 THEN empty ELSE Seat(names, args, k, u[k - 1])
    <3>1. v = [x \in 0..(m - 1) |-> IF x = 0 THEN empty ELSE Seat(names, args, x, v[x - 1])]
      BY <2>1 DEF SeatsUpTo
    <3>2. CASE k = m
      <4>1. m - 1 \in 0..m /\ m - 1 # m /\ m # 0
        OBVIOUS
      <4>2. u[m] = Seat(names, args, m, v[m - 1]) /\ u[m - 1] = v[m - 1]
        BY <4>1
      <4> QED BY <3>2, <4>1, <4>2
    <3>3. CASE k # m
      <4>1. k \in 0..(m - 1) /\ (k # 0 => k - 1 \in 0..m /\ k - 1 # m)
        BY <3>3
      <4>2. u[k] = v[k] /\ (k # 0 => u[k - 1] = v[k - 1])
        BY <3>3, <4>1
      <4>3. v[k] = IF k = 0 THEN empty ELSE Seat(names, args, k, v[k - 1])
        <5> HIDE DEF empty
        <5> QED BY <3>1, <4>1
      <4> QED BY <4>2, <4>3
    <3> QED BY <3>2, <3>3
  <2>3. SeatsUpTo(names, args, u, m)
    <3>1. u = [k \in 0..m |-> u[k]]
      OBVIOUS
    <3> HIDE DEF u
    <3>2. [k \in 0..m |-> u[k]] = [k \in 0..m |-> IF k = 0 THEN empty ELSE Seat(names, args, k, u[k - 1])]
      BY <2>2
    <3> QED BY <3>1, <3>2, Zenon DEF SeatsUpTo
  <2> HIDE DEF u
  <2> QED BY <2>3
<1>3. n \in E
  <2> HIDE DEF E
  <2> QED BY <1>1, <1>2, CountUp
<1>4. \E u : SeatsUpTo(names, args, u, n)
  BY <1>3
<1> QED BY <1>4, Zenon

\* After the last argument.
LEMMA AllSeated ==
    ASSUME NEW names, Apart(names), NEW args, NEW n \in Nat, NEW u, Seating(names, args, u, n),
           \A k \in 1..n : args[k].name # Positional
    PROVE  Seated(names, args, u[n], n)
<1> DEFINE Good1 == {k \in 0..n : Seated(names, args, u[k], k)}
<1>1. 0 \in Good1
  <2> DEFINE z == [i \in DOMAIN names |-> 0]
  <2>1. z = [i \in DOMAIN names |-> z[i]] /\ \A i \in DOMAIN names : z[i] = 0
    OBVIOUS
  <2>2. u[0] = z
    BY DEF Seating
  <2> HIDE DEF z
  <2>3. Seated(names, args, z, 0)
    <3>1. \A i \in DOMAIN names : z[i] \in 0..0 /\ ~(z[i] # 0)
      BY <2>1
    <3>2. \A j \in 1..0 : FALSE
      OBVIOUS
    <3> QED BY <2>1, <3>1, <3>2, Zenon DEF Seated
  <2>4. Seated(names, args, u[0], 0)
    BY <2>2, <2>3
  <2>5. 0 \in 0..n
    OBVIOUS
  <2> QED BY <2>4, <2>5, Zenon
<1>2. ASSUME NEW k \in 1..n, k - 1 \in Good1 PROVE k \in Good1
  <2>1. u[k] = Seat(names, args, k, u[k - 1])
    BY <1>2 DEF Seating
  <2>2. Seated(names, args, u[k - 1], k - 1)
    BY <1>2, Zenon
  <2> DEFINE s == u[k - 1]
  <2>3. args[k].name # Positional /\ Seated(names, args, s, k - 1) /\ k \in 1..n
    BY <1>2, <2>2
  <2> HIDE DEF s
  <2>4. Seated(names, args, Seat(names, args, k, s), k)
    BY <2>3, SeatSeats
  <2>5. Seated(names, args, u[k], k)
    BY <2>1, <2>4 DEF s
  <2>6. k \in 0..n
    BY <1>2
  <2> QED BY <2>5, <2>6, Zenon
<1>3. n \in Good1
  <2> HIDE DEF Good1
  <2> QED BY <1>1, <1>2, CountUp
<1> QED BY <1>3

-----------------------------------------------------------------------------
\* The arguments of a call, once they are in the order of the parameters.
ReachTheirs(names, args, vals) ==
    LET filled == {names[i] : i \in DOMAIN names \cap DOMAIN vals}
    IN  names # AnyNames /\ vals # KwargError /\ {a.name : a \in Members(args)} = filled =>
            \A a \in Members(args) : \A i \in DOMAIN vals :
                names[i] = a.name => vals[i] = a.value

\* What the slots become: the arguments in their order, gaps left out.
Flattened(slots, args) ==
    LET filled == Selected(slots, {i \in DOMAIN slots : slots[i] # 0})
    IN  [i \in DOMAIN filled |-> args[filled[i]].value]

\* What Reorder makes of the slots when an argument is named.
LEMMA ReorderedBySlots ==
    ASSUME NEW names, names # AnyNames, NEW args, Len(args) \in Nat,
           NEW k \in DOMAIN args, args[k].name # Positional
    PROVE  \E u : /\ Seating(names, args, u, Len(args))
                  /\ Reorder(names, args) = IF u[Len(args)] = <<>> THEN KwargError
                                             ELSE Flattened(u[Len(args)], args)
<1> DEFINE n == Len(args)
           f == CHOOSE u : SeatsUpTo(names, args, u, n)
<1>1. Reorder(names, args) = IF f[n] = <<>> THEN KwargError ELSE Flattened(f[n], args)
  <2>1. ~(names = AnyNames \/ \A j \in DOMAIN args : args[j].name = "")
    BY Zenon DEF Positional
  <2> DEFINE g == CHOOSE u : u = [j \in 0..n |-> IF j = 0 THEN [i \in DOMAIN names |-> 0]
                                          ELSE Seat(names, args, j, u[j - 1])]
  <2>2. Reorder(names, args) =
            IF names = AnyNames \/ \A j \in DOMAIN args : args[j].name = ""
            THEN [j \in DOMAIN args |-> args[j].value]
            ELSE IF g[n] = <<>> THEN KwargError ELSE Flattened(g[n], args)
    BY DEF Reorder, Flattened
  <2>3. f = g
    BY DEF SeatsUpTo
  <2> HIDE DEF f, g
  <2> QED BY <2>1, <2>2, <2>3, Zenon
<1>2. SeatsUpTo(names, args, f, n)
  BY SeatingExists, Zenon
<1>3. Seating(names, args, f, n)
  <2> HIDE DEF f
  <2>1. 0 \in 0..n /\ \A j \in 1..n : j \in 0..n /\ j # 0
    OBVIOUS
  <2> QED BY <1>2, <2>1 DEF Seating, SeatsUpTo
<1> HIDE DEF f
<1> QED BY <1>1, <1>3, Zenon

\* The values of named arguments are in the order of the parameters.
LEMMA ReorderReaches ==
    ASSUME NEW names, Apart(names), NEW args, args \in Seq(Members(args))
    PROVE  ReachTheirs(names, args, Reorder(names, args))
<1> DEFINE vals == Reorder(names, args)
           n == Len(args)
           L == Len(names)
           shared == {names[i] : i \in DOMAIN names \cap DOMAIN vals}
<1>1. n \in Nat /\ DOMAIN args = 1..n
  BY LenProperties
<1>2. SUFFICES ASSUME names # AnyNames, vals # KwargError,
                      {a.name : a \in Members(args)} = shared,
                      NEW a \in Members(args), NEW i \in DOMAIN vals, names[i] = a.name
               PROVE  vals[i] = a.value
  BY Zenon DEF ReachTheirs
<1>3. ASSUME NEW k \in DOMAIN args
      PROVE  \E j \in DOMAIN names \cap DOMAIN vals : names[j] = args[k].name
  <2>1. args[k].name \in shared
    BY <1>2, <1>3, Zenon DEF Members
  <2> HIDE DEF vals
  <2> QED BY <2>1
<1>4. ASSUME NEW k \in DOMAIN args PROVE args[k].name # Positional
  BY <1>3, <1>4, Zenon DEF Apart
<1>5. PICK k0 \in DOMAIN args : a = args[k0]
  BY DEF Members
<1>6. PICK u : /\ Seating(names, args, u, n)
               /\ vals = IF u[n] = <<>> THEN KwargError ELSE Flattened(u[n], args)
  BY <1>1, <1>2, <1>4, <1>5, ReorderedBySlots
<1> DEFINE slots == u[n]
           P == {j \in DOMAIN slots : slots[j] # 0}
           filled == Selected(slots, P)
           m == Len(filled)
<1>7. Seated(names, args, slots, n)
  BY <1>1, <1>4, <1>6, AllSeated
<1>8. slots # <<>> /\ vals = [j \in DOMAIN filled |-> args[filled[j]].value]
  BY <1>2, <1>6 DEF Flattened
<1> HIDE DEF vals, slots
<1>9. /\ slots = [j \in 1..L |-> slots[j]]
      /\ \A j \in 1..L : slots[j] \in 0..n /\ (slots[j] # 0 => names[j] = args[slots[j]].name)
      /\ \A k \in 1..n : \E j \in 1..L : slots[j] = k
      /\ L \in Nat /\ DOMAIN names = 1..L
      /\ \A j, k \in 1..L : names[j] = names[k] => j = k
  BY <1>7, <1>8 DEF Seated, Apart
<1> HIDE DEF n, L
<1>10. /\ slots \in Seq(0..n) /\ Len(slots) = L /\ DOMAIN slots = 1..L
  <2>1. slots \in [1..L -> 0..n]
    BY <1>9
  <2>2. slots \in Seq(0..n)
    BY <1>9, <2>1, SeqDef
  <2>3. DOMAIN slots = 1..L
    BY <2>1
  <2>4. Len(slots) \in Nat /\ DOMAIN slots = 1..Len(slots)
    BY <2>2, LenProperties
  <2>5. Len(slots) = L
    BY <1>9, <2>3, <2>4
  <2> QED BY <2>2, <2>3, <2>5
<1>11. filled \in Seq(0..n) /\ m \in Nat /\ DOMAIN filled = 1..m /\ DOMAIN vals = 1..m
  <2>1. filled \in Seq(0..n)
    BY <1>10, SelectedTyped
  <2> HIDE DEF filled
  <2> QED BY <1>8, <2>1, LenProperties
<1> HIDE DEF filled, m
<1>12. ASSUME NEW j \in 1..L PROVE j \in P <=> j <= m
  <2>1. j \in 1..m <=> j <= m
    BY <1>9, <1>11, <1>12
  <2>2. ASSUME slots[j] # 0 PROVE j \in 1..m
    <3>1. slots[j] \in 1..n /\ names[j] = args[slots[j]].name
      BY <1>1, <1>9, <1>12, <2>2
    <3>2. PICK i2 \in 1..L : i2 \in 1..m /\ names[i2] = args[slots[j]].name
      BY <1>1, <1>3, <1>9, <1>11, <3>1
    <3> QED BY <1>9, <1>12, <3>1, <3>2
  <2>3. ASSUME j \in 1..m PROVE slots[j] # 0
    <3>1. names[j] \in shared
      BY <1>9, <1>11, <1>12, <2>3
    <3>2. PICK k \in 1..n : args[k].name = names[j]
      <4>1. names[j] \in {b.name : b \in Members(args)}
        BY <1>2, <3>1, Zenon
      <4>2. PICK b \in Members(args) : b.name = names[j]
        BY <4>1, Zenon
      <4>3. PICK k \in DOMAIN args : b = args[k]
        BY <4>2, Zenon DEF Members
      <4>4. args[k].name = names[j]
        BY <4>2, <4>3, Zenon
      <4> QED BY <1>1, <4>3, <4>4, Zenon
    <3>3. PICK i2 \in 1..L : slots[i2] = k
      BY <1>9, <3>2
    <3>4. k # 0
      BY <1>1, <3>2
    <3>5. names[i2] = args[k].name
      BY <1>9, <3>3, <3>4
    <3> QED BY <1>9, <1>12, <3>2, <3>3, <3>4, <3>5
  <2> QED BY <1>10, <1>12, <2>1, <2>2, <2>3
<1>13. m <= L /\ \A j \in 1..m : filled[j] = slots[j]
  <2> DEFINE q == IF m <= L THEN m ELSE L
  <2>1. q \in 0..L /\ \A j \in 1..L : j <= m <=> j <= q
    BY <1>9, <1>11
  <2> HIDE DEF q, P
  <2>2. \A j \in 1..L : j \in P <=> j <= q
    BY <1>12, <2>1
  <2>3. Len(filled) = q /\ \A j \in 1..q : filled[j] = slots[j]
    <3>1. Len(Selected(slots, P)) = q /\ \A j \in 1..q : Selected(slots, P)[j] = slots[j]
      <4>1. L \in Nat /\ slots \in Seq(0..n) /\ Len(slots) = L /\ q \in 0..L
        BY <1>9, <1>10, <2>1
      <4> QED BY <2>2, <4>1, SelectedBeginning, Zenon
    <3> QED BY <3>1, Zenon DEF filled
  <2>4. q = m
    BY <2>3 DEF m
  <2> QED BY <2>1, <2>3, <2>4
<1>14. i \in 1..m /\ i \in 1..L
  BY <1>2, <1>9, <1>11, <1>13
<1>15. PICK i0 \in 1..L : slots[i0] = k0
  BY <1>1, <1>5, <1>9
<1>16. names[i0] = args[k0].name
  <2>1. k0 # 0
    BY <1>1, <1>5
  <2> QED BY <1>9, <1>15, <2>1
<1>17. i0 = i
  BY <1>2, <1>5, <1>9, <1>14, <1>15, <1>16
<1>18. vals[i] = args[slots[i]].value
  BY <1>8, <1>11, <1>13, <1>14
<1> QED BY <1>5, <1>15, <1>17, <1>18

\* The values of the call are those of its arguments, put in order.
HandedOver ==
    \/ call.args = <<>>
    \/ /\ IsList(call.args)
       /\ call.vals = Reorder(ParamNames(call.module, call.op), call.args)

LEMMA HandedStep ==
    ASSUME HandedOver, [CapNext]_capVars
    PROVE  HandedOver'
<1>1. ASSUME NEW c \in Calls, Call(c) PROVE HandedOver'
  <2>1. call' = [module |-> c.module, op |-> c.op, args |-> c.args,
                 vals |-> Reorder(ParamNames(c.module, c.op), c.args)]
    BY <1>1, Zenon DEF Call
  <2>2. IsList(c.args)
    BY CapsAssumption
  <2> QED BY <2>1, <2>2 DEF HandedOver
<1>2. CASE call' = NoCall
  BY <1>2 DEF HandedOver, NoCall
<1>3. CASE call' = call
  BY <1>3 DEF HandedOver
<1>4. ASSUME ~\E c \in Calls : Call(c) PROVE call' \in {call, NoCall}
  BY <1>4 DEF CapNext, capVars, callVars, Enter, EnterWithoutCap, Shadow, Leave, Unwind, Narrow,
     DropCall, Clause, PoliciesDone, NextPolicy, Raise, ArgsRead, Refuse, Pass, Fail, Examine, Act,
     SendFails, AskFails, Stage, StagesDone, Record, AskAgain, Decided, Return, Continue
<1> QED BY <1>1, <1>2, <1>3, <1>4

\* A named argument reaches the parameter of that name, whatever the order it is
\* written in.
THEOREM NamesAreKept == CapSpec => []NamedReachParameters
<1>1. CapInit => HandedOver
  BY DEF CapInit, DropCall, NoCall, HandedOver
<1>2. ASSUME HandedOver PROVE NamedReachParameters
  <2> DEFINE names == ParamNames(call.module, call.op)
  <2>1. ReachTheirs(names, call.args, call.vals)
    <3>1. CASE call.args = <<>>
      <4>1. Members(call.args) = {}
        BY <3>1 DEF Members
      <4> QED BY <4>1, Zenon DEF ReachTheirs
    <3>2. CASE IsList(call.args) /\ call.vals = Reorder(names, call.args)
      <4>1. Apart(names) /\ call.args \in Seq(Members(call.args))
        BY <3>2, ParamNamesApart DEF IsList
      <4> DEFINE args == call.args
      <4>2. args \in Seq(Members(args)) /\ Apart(names)
        BY <4>1
      <4> HIDE DEF args, names
      <4>3. ReachTheirs(names, args, Reorder(names, args))
        BY <4>2, ReorderReaches
      <4> QED BY <3>2, <4>3 DEF args
    <3> QED BY <1>2, <3>1, <3>2 DEF HandedOver
  <2> QED BY <2>1, Zenon DEF ReachTheirs, NamedReachParameters
<1> QED BY <1>1, <1>2, HandedStep, PTL DEF CapSpec
=============================================================================
