------------------------------- MODULE Stores -------------------------------
(***************************************************************************)
(* The file-backed stores of a program: a Mongo collection and a Rabbit    *)
(* queue, each a file of lines that is appended to, and the objects of a   *)
(* Minio bucket (runtime/l2_backend/real_mongo.rs, real_rabbit.rs,         *)
(* real_minio.rs).  The disk outlives the program: an append may stop      *)
(* half-way because it fails or because the process dies, and what follows *)
(* is appended behind what is there.                                       *)
(***************************************************************************)
EXTENDS Integers, Sequences, FiniteSets, SequencesExt, Selection

CONSTANTS
    Docs,      \* documents, without their keys
    Skipped,   \* those whose text no read decodes: values that are no records,
               \* records with a number the decoder does not take (NaN, 1e300)
    Bare,      \* those that are no records, which get no key
    Msgs,      \* messages
    OwnKeys,   \* values of __aeris_idem that documents bring from elsewhere
    BlockKeys, \* the blocks the program runs, in order: the idempotency key
               \* of each, NoKey outside sagas and pipelines
    Objects,   \* the objects of the bucket
    NoKey,
    MaxWrites, \* bound: documents and messages handed to the stores
    MaxRuns    \* bound: starts of the program

VARIABLES
    coll,      \* the collection: [lines, open, garbled]
    queue,     \* the queue, likewise
    bucket,    \* "absent" or "there"
    objects,   \* each object: "absent", "whole" (the content of the last put) or
               \* "torn" (what a put that failed left of its own)
    run,       \* starts of the program so far
    block,     \* the block it runs, 0 before the first
    acked,     \* documents acknowledged: [doc, key, duplicate], in order
    published, \* messages acknowledged, in order
    failed     \* [coll, queue]: appends that stopped half-way

storeVars == <<coll, queue, bucket, objects, run, block, acked, published, failed>>

ASSUME StoresAssumption ==
    /\ Skipped \subseteq Docs /\ Bare \subseteq Skipped
    /\ MaxWrites \in Nat /\ MaxRuns \in Nat
    /\ BlockKeys \in Seq(Range(BlockKeys))

\* A line is a sequence of fragments, more than one when an append found the
\* line before it without its end.  A fragment has the document, the keys its
\* text shows, whether the document brought them along, and how far it was written.
Fragment(doc, keys, brought, cut) ==
    [doc |-> doc, keys |-> keys, brought |-> brought, cut |-> cut]
EmptyFile == [lines |-> <<>>, open |-> FALSE, garbled |-> FALSE]

\* Where an append may stop: before its first byte, before the key at the end
\* of the text, inside a character, after the key, before the line end.
Cuts == {"none", "early", "inside", "late", "no_eol"}

\* Seeded fault: the text is written without its line end.
BugAppended(file, fragment) ==
    [file EXCEPT !.lines = IF @ = <<>> THEN << <<fragment>> >>
                           ELSE [@ EXCEPT ![Len(@)] = Append(@, fragment)],
                 !.open = TRUE]

\* open(append) and write_all of the text and its line end.
Appended(file, fragment) ==
    IF fragment.cut = "none" THEN file
    ELSE [lines |-> IF file.open
                    THEN [file.lines EXCEPT ![Len(file.lines)] = Append(@, fragment)]
                    ELSE Append(file.lines, <<fragment>>),
          open |-> fragment.cut # "full",
          garbled |-> file.garbled \/ fragment.cut = "inside"]

\* Lines that decode_natural_object takes: one record, complete.
Complete(fragment) == fragment.cut \in {"full", "no_eol"} /\ fragment.doc \notin Skipped
Decodes(line) == Len(line) = 1 /\ Complete(line[1])

\* RealMongo::read.  A file that is not UTF-8 is an error, a line that does not
\* decode is skipped.
Readable(file) == ~file.garbled
ReadDocs(file) ==
    LET good == Selected(file.lines, {i \in DOMAIN file.lines : Decodes(file.lines[i])})
    IN [i \in DOMAIN good |-> good[i][1].doc]

\* RealRabbit::subscribe.  A line that does not decode is a message as well, its
\* text; nothing is taken out of the queue.
Text(f) == <<f.doc, IF f.cut = "no_eol" THEN "full" ELSE f.cut>>
Messages(file) ==
    [i \in DOMAIN file.lines |-> [j \in DOMAIN file.lines[i] |-> Text(file.lines[i][j])]]

----------------------------------------------------------------------------
(* The Mongo collection.                                                   *)

\* The keys of one run are not those of another: they contain the trace id.
EnvKey == IF block = 0 \/ BlockKeys[block] = NoKey THEN NoKey ELSE <<run, BlockKeys[block]>>

\* The keys a document may bring along: one it got elsewhere, or that of a
\* document which a read of the collection may have handed back.
KeysRead(file) ==
    UNION {f.keys : f \in {g \in UNION {Range(l) : l \in Range(file.lines)} : Complete(g)}}
Brings == {NoKey} \cup OwnKeys \cup KeysRead(coll)

\* The text of a document shows the key it brings, or the one that is injected
\* into a record that brings none.
KeysShown(doc, own) ==
    IF own # NoKey THEN {own} ELSE IF EnvKey = NoKey \/ doc \in Bare THEN {} ELSE {EnvKey}
ShownUpTo(doc, own, cut) ==
    IF cut \in {"early", "inside"} THEN {} ELSE KeysShown(doc, own)

\* Seeded fault: only lines that decode are looked at.
BugHasKey(file, key) ==
    \E l \in Range(file.lines) : Decodes(l) /\ key \in l[1].keys

\* Whether a line contains the key, complete or not.
HasKey(file, key) == \E l \in Range(file.lines) : \E f \in Range(l) : key \in f.keys

\* The file is read for the key before the append, so it must be readable.
Duplicate == EnvKey # NoKey /\ Readable(coll) /\ HasKey(coll, EnvKey)
MayAppend == EnvKey = NoKey \/ (Readable(coll) /\ ~HasKey(coll, EnvKey))

WriteDuplicate(doc) ==
    /\ Duplicate
    /\ acked' = Append(acked, [doc |-> doc, key |-> EnvKey, duplicate |-> TRUE])
    /\ UNCHANGED <<coll, queue, bucket, objects, run, block, published, failed>>

WriteDoc(doc, own) ==
    /\ MayAppend
    /\ coll' = Appended(coll, Fragment(doc, KeysShown(doc, own), own # NoKey, "full"))
    /\ acked' = Append(acked, [doc |-> doc, key |-> EnvKey, duplicate |-> FALSE])
    /\ UNCHANGED <<queue, bucket, objects, run, block, published, failed>>

\* The append fails (a full disk): the error is raised and no event recorded.
WriteDocFails(doc, own, cut) ==
    /\ MayAppend
    /\ coll' = Appended(coll, Fragment(doc, ShownUpTo(doc, own, cut), own # NoKey, cut))
    /\ failed' = [failed EXCEPT !.coll = @ + 1]
    /\ UNCHANGED <<queue, bucket, objects, run, block, acked, published>>

----------------------------------------------------------------------------
(* The Rabbit queue: no key is looked for.                                 *)

\* Seeded fault: the file is opened for writing, not for appending.
BugPublish(msg) ==
    /\ queue' = Appended(EmptyFile, Fragment(msg, {}, FALSE, "full"))
    /\ published' = Append(published, msg)
    /\ UNCHANGED <<coll, bucket, objects, run, block, acked, failed>>

Publish(msg) ==
    /\ queue' = Appended(queue, Fragment(msg, {}, FALSE, "full"))
    /\ published' = Append(published, msg)
    /\ UNCHANGED <<coll, bucket, objects, run, block, acked, failed>>

PublishFails(msg, cut) ==
    /\ queue' = Appended(queue, Fragment(msg, {}, FALSE, cut))
    /\ failed' = [failed EXCEPT !.queue = @ + 1]
    /\ UNCHANGED <<coll, bucket, objects, run, block, acked, published>>

----------------------------------------------------------------------------
(* The Minio bucket, a directory.                                          *)

MakeBucket == /\ bucket' = "there"
              /\ UNCHANGED <<coll, queue, objects, run, block, acked, published, failed>>

\* put makes the directory and truncates the object before it writes.
Put(o, content) ==
    /\ bucket' = "there"
    /\ objects' = [objects EXCEPT ![o] = content]
    /\ UNCHANGED <<coll, queue, run, block, acked, published, failed>>

GetFails(o) == objects[o] = "absent"

----------------------------------------------------------------------------
StoresInit ==
    /\ coll = EmptyFile /\ queue = EmptyFile
    /\ bucket = "absent" /\ objects = [o \in Objects |-> "absent"]
    /\ run = 1 /\ block = 0 /\ acked = <<>> /\ published = <<>>
    /\ failed = [coll |-> 0, queue |-> 0]

NextBlock ==
    /\ block < Len(BlockKeys) /\ block' = block + 1
    /\ UNCHANGED <<coll, queue, bucket, objects, run, acked, published, failed>>

\* The process dies and the program is started again.  A death in the middle of
\* an append or a put leaves what one that failed leaves.
Crash ==
    /\ run < MaxRuns
    /\ run' = run + 1 /\ block' = 0
    /\ UNCHANGED <<coll, queue, bucket, objects, acked, published, failed>>

Handed == Len(acked) + Len(published) + failed.coll + failed.queue
=============================================================================
