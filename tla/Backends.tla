------------------------------ MODULE Backends ------------------------------
(***************************************************************************)
(* A program and its L2 backends: the modules are loaded before any user   *)
(* code, then each call goes to the backend the dispatch table holds for   *)
(* its family (the builtin_* functions of runtime/eval.rs).                *)
(***************************************************************************)
EXTENDS L2Modules, Stores

CONSTANT Errors   \* what the message of a store's error speaks of: sets of words

VARIABLE answer   \* how the last call ended: "value", "errvalue" (an Err value),
                  \* "raised" or the family of the error raised; "none" at first

backVars == <<moduleVars, storeVars, answer>>

BackInit == ModulesInit /\ StoresInit /\ answer = "none"

Load(ok) == CheckModule(ok) /\ UNCHANGED <<storeVars, answer>>

\* User code of a program that started.
Running == startup = "ready" /\ UNCHANGED moduleVars

\* A mock records an event and answers with a value of its own; it reads and
\* writes no store.
MockCall(family, op) ==
    /\ Running /\ table[family] = "mock" /\ op \in FamilyOps[family]
    /\ answer' = "value"
    /\ UNCHANGED storeVars

LoadedCall(family, op, reply) ==
    /\ Running /\ table[family] = "loaded" /\ op \in FamilyOps[family]
    /\ answer' = ReplyOutcome(reply)
    /\ UNCHANGED storeVars

\* Real audit, kube and docker calls leave the stores alone; a kube or docker
\* command that fails is an Err value and recorded all the same.
RealCall(family, op, outcome) ==
    /\ Running /\ table[family] = "real" /\ family \in {"audit", "kube", "docker"}
    /\ op \in FamilyOps[family]
    /\ answer' = outcome
    /\ UNCHANGED storeVars

Real(family) == Running /\ table[family] = "real"
Done == answer' = "value"
Broken(words) == answer' = ErrorKind(words)

MongoWrite(d, own) ==
    /\ Real("mongodb") /\ Handed < MaxWrites
    /\ WriteDuplicate(d) \/ WriteDoc(d, own)
    /\ Done
MongoWriteFails(d, own, cut, words) ==
    /\ Real("mongodb") /\ Handed < MaxWrites
    /\ WriteDocFails(d, own, cut)
    /\ Broken(words)
\* The scan for the key, or a read, meets text that is not UTF-8.
MongoUnreadable(op, words) ==
    /\ Real("mongodb") /\ ~Readable(coll)
    /\ op = "read" \/ (op = "write" /\ EnvKey # NoKey)
    /\ Broken(words) /\ UNCHANGED storeVars
MongoRead ==
    /\ Real("mongodb") /\ Readable(coll)
    /\ Done /\ UNCHANGED storeVars

RabbitPublish(m) ==
    /\ Real("rabbitmq") /\ Handed < MaxWrites
    /\ Publish(m) /\ Done
RabbitPublishFails(m, cut, words) ==
    /\ Real("rabbitmq") /\ Handed < MaxWrites
    /\ PublishFails(m, cut) /\ Broken(words)
RabbitSubscribe(words) ==
    /\ Real("rabbitmq")
    /\ IF Readable(queue) THEN Done
       ELSE Broken(words)
    /\ UNCHANGED storeVars

MinioPut(o) == Real("minio") /\ Put(o, "whole") /\ Done
MinioPutFails(o, words) ==
    Real("minio") /\ Put(o, "torn") /\ Broken(words)
MinioMb == Real("minio") /\ MakeBucket /\ Done
MinioGet(o, words) ==
    /\ Real("minio")
    /\ IF GetFails(o) THEN Broken(words) ELSE Done
    /\ UNCHANGED storeVars
MinioLook(op) ==
    /\ Real("minio") /\ op \in {"bucket_exists", "list"}
    /\ Done /\ UNCHANGED storeVars

EnterBlock == Running /\ NextBlock /\ UNCHANGED answer
Die == Running /\ Crash /\ answer' = "none"

BackNext ==
    \/ \E ok \in BOOLEAN : Load(ok)
    \/ \E f \in Families : \E op \in FamilyOps[f] :
          \/ MockCall(f, op)
          \/ \E r \in Replies : LoadedCall(f, op, r)
          \/ \E o \in {"value", "errvalue"} : RealCall(f, op, o)
    \/ \E d \in Docs, own \in Brings :
          \/ MongoWrite(d, own)
          \/ \E c \in Cuts, w \in Errors : MongoWriteFails(d, own, c, w)
    \/ \E m \in Msgs : RabbitPublish(m)
    \/ \E m \in Msgs, c \in Cuts, w \in Errors : RabbitPublishFails(m, c, w)
    \/ \E op \in MongoOps, w \in Errors : MongoUnreadable(op, w)
    \/ MongoRead
    \/ \E w \in Errors : RabbitSubscribe(w)
    \/ \E o \in Objects : MinioPut(o)
    \/ \E o \in Objects, w \in Errors : MinioPutFails(o, w) \/ MinioGet(o, w)
    \/ MinioMb \/ \E op \in MinioOps : MinioLook(op)
    \/ EnterBlock \/ Die

BackSpec == BackInit /\ [][BackNext]_backVars

-----------------------------------------------------------------------------
(* Properties.                                                             *)

\* No code of a module runs before its hash and its signature are verified, and
\* the program does not start unless every module that aeris.toml names passed
\* every check and serves its family (LoadedModule::load,
\* from_manifest_with_modules).
VerifiedBeforeRun ==
    /\ \A f \in ran : {"hash", "signature"} \subseteq passed[f]
    /\ startup # "ready" => answer = "none"
    /\ startup = "ready" =>
          \A f \in Range(toml.modules) :
              table[f] = "loaded" /\ passed[f] = Range(Checks)

EnvKeys == (1..MaxRuns) \X Range(BlockKeys)

\* Where the collection shows a key: the line, and the text in it.
Places(key) ==
    UNION {{<<i, m>> : m \in {n \in DOMAIN coll.lines[i] : key \in coll.lines[i][n].keys}} :
              i \in DOMAIN coll.lines}
TextAt(place) == coll.lines[place[1]][place[2]]

\* However often a block writes under its key, whatever its earlier appends left
\* behind and whatever documents bring its key along, the store puts the key into
\* one text of the collection: a write that failed after the key was on disk is
\* not repeated, and each further text with the key is one of a document that was
\* handed over with it (RealMongo::write).
KeyStoredOnce ==
    \A k \in EnvKeys : \A p, q \in Places(k) :
        ~TextAt(p).brought /\ ~TextAt(q).brought => p = q

Kept(ack) == ~ack.duplicate /\ ack.doc \notin Skipped
Stored == Selected(acked, {i \in DOMAIN acked : Kept(acked[i])})

\* Of what was acknowledged, a read returns the records that were not dropped as a
\* duplicate and that the decoder takes; each append that stopped half-way can cost
\* one of them that was acknowledged after it, the one behind which it ends up, and
\* no more, whatever stands between them that does not decode.
LossIsBounded ==
    Readable(coll) =>
        /\ failed.coll = 0 => ReadDocs(coll) = [i \in DOMAIN Stored |-> Stored[i].doc]
        /\ Len(Stored) - Len(ReadDocs(coll)) <= failed.coll

\* A message in the queue stays where it is for all that follows, restarts
\* included; only the last one can still change, when an append continues a line
\* that was left open (RealRabbit).
MessagesStayPut ==
    [][LET was == Messages(queue)
           is == Messages(queue')
       IN  /\ Len(is) >= Len(was)
           /\ \A i \in DOMAIN was : is[i] = was[i] \/ (i = Len(was) /\ queue.open)]_backVars

-----------------------------------------------------------------------------
(* Claims that the code does not meet (README, Findings): no run checks     *)
(* them, and TLC refutes each when it is added to the invariants of the run. *)

\* docs/plan.md:655: any line already carrying the same idem skips the append, so
\* that the key stands in the collection once.  A document that was read brings
\* the key along, and outside its block nobody looks for it.
KeyStandsOnce == \A k \in EnvKeys : Cardinality(Places(k)) <= 1

\* docs/language.md section 12.3: a step that runs again writes nothing new.  A
\* value that is no record, or a record that brings another key, shows none of its
\* block and is appended each time.
RepeatIsDuplicate ==
    \A i, j \in DOMAIN acked :
        i < j /\ acked[i].key # NoKey /\ acked[i].key = acked[j].key => acked[j].duplicate

\* runtime/eval.rs:8943: records are the only shape that mongodb.write accepts.
\* Other values are acknowledged as well, and no read returns them.
AcknowledgedIsRead ==
    failed.coll = 0 =>
        Len(ReadDocs(coll)) = Cardinality({i \in DOMAIN acked : ~acked[i].duplicate})
=============================================================================
