------------------------------- MODULE Loader -------------------------------
(***************************************************************************)
(* The module loader: load_with_imports, behind `aeris run`, and           *)
(* inline_local_imports, behind `aeris check`, which starts from an entry  *)
(* that is already parsed.  Both walk the imports of local files depth     *)
(* first and inline what they find.  A file is identified with its         *)
(* canonical path and with the items it declares; the recursion is the     *)
(* sequence of its frames.                                                 *)
(***************************************************************************)
EXTENDS Integers, Sequences

CONSTANTS
    Files, Entry,
    Stdlib,     \* the names a `use` without a path brings into scope
    Sources,    \* what a file may be: [state, local, uses]; see SourceType
    MaxWalk     \* bound: the steps of the walk the result is compared with

\* A file cannot be read ("io"), does not parse ("parse") or does ("ok"); local
\* are the files its `use` clauses with a path name, uses the names of the others.
SourceType == [state : {"ok", "io", "parse"}, local : Seq(Files), uses : SUBSET Stdlib]

ASSUME LoaderAssumption == Entry \in Files /\ Sources \subseteq SourceType
ASSUME WalkAssumption == MaxWalk \in Nat

VARIABLES
    checking,       \* inline_local_imports, not load_with_imports
    src,            \* the files on disk
    stack,          \* the calls of load_recursive in progress, outermost first
    in_progress, loaded,
    outcome         \* "loading", "ok", or the LoadError returned

vars == <<checking, src, stack, in_progress, loaded, outcome>>

\* A call that has read its file: the module built so far, and the import it
\* looks at next.
Frame(f) == [file |-> f, next |-> 1, items |-> <<f>>, uses |-> src[f].uses]

Init ==
    /\ checking \in BOOLEAN
    /\ src \in [Files -> Sources]
    /\ checking => src[Entry].state = "ok"
    /\ stack = IF checking THEN <<Frame(Entry)>> ELSE <<>>
    /\ in_progress = {} /\ loaded = {}
    /\ outcome = "loading"

Top == stack[Len(stack)]
Done == stack # <<>> /\ Top.next > Len(src[Top.file].local)

\* The call of load_recursive that comes next, if the frame on top is not done.
Calling == outcome = "loading" /\ ~Done
Callee == IF stack = <<>> THEN Entry ELSE src[Top.file].local[Top.next]

Fail(why) ==
    /\ outcome' = why
    /\ UNCHANGED <<checking, src, stack, in_progress, loaded>>

\* canonicalize or read_to_string fails, or parse does.  A file that could be
\* read the first time is taken to stay as it is.
Unreadable ==
    /\ Calling /\ Callee \notin in_progress /\ Callee \notin loaded
    /\ src[Callee].state # "ok"
    /\ Fail(src[Callee].state)

Cycle ==
    /\ Calling /\ Callee \in in_progress
    /\ Fail("cycle")

\* Seeded fault: a file is taken to be loaded as soon as it is entered.
BugEnter ==
    /\ Calling /\ Callee \notin in_progress /\ Callee \notin loaded
    /\ src[Callee].state = "ok"
    /\ stack' = Append(stack, Frame(Callee))
    /\ loaded' = loaded \union {Callee}
    /\ UNCHANGED <<checking, src, in_progress, outcome>>

Enter ==
    /\ Calling /\ Callee \notin in_progress /\ Callee \notin loaded
    /\ src[Callee].state = "ok"
    /\ stack' = Append(stack, Frame(Callee))
    /\ in_progress' = in_progress \union {Callee}
    /\ UNCHANGED <<checking, src, loaded, outcome>>

\* A call returns this module to the frame that made it.
Merged(frame, items, uses) ==
    [file |-> frame.file, next |-> frame.next + 1,
     items |-> frame.items \o items, uses |-> frame.uses \union uses]

\* A file that has been inlined already yields an empty module.
AlreadyLoaded ==
    /\ Calling /\ Callee \in loaded /\ Callee \notin in_progress
    /\ stack' = [stack EXCEPT ![Len(stack)] = Merged(@, <<>>, {})]
    /\ UNCHANGED <<checking, src, in_progress, loaded, outcome>>

\* Seeded fault: the uses of an inlined module are not forwarded.
BugReturn ==
    /\ outcome = "loading" /\ Done /\ Len(stack) > 1
    /\ stack' = [SubSeq(stack, 1, Len(stack) - 1) EXCEPT ![Len(stack) - 1] =
                    Merged(@, Top.items, {})]
    /\ in_progress' = in_progress \ {Top.file}
    /\ loaded' = loaded \union {Top.file}
    /\ UNCHANGED <<checking, src, outcome>>

Return ==
    /\ outcome = "loading" /\ Done /\ Len(stack) > 1
    /\ stack' = [SubSeq(stack, 1, Len(stack) - 1) EXCEPT ![Len(stack) - 1] =
                    Merged(@, Top.items, Top.uses)]
    /\ in_progress' = in_progress \ {Top.file}
    /\ loaded' = loaded \union {Top.file}
    /\ UNCHANGED <<checking, src, outcome>>

\* The outermost call returns.  inline_into keeps no record of its own module.
Finish ==
    /\ outcome = "loading" /\ Done /\ Len(stack) = 1
    /\ outcome' = "ok"
    /\ IF checking THEN UNCHANGED <<in_progress, loaded>>
       ELSE /\ in_progress' = in_progress \ {Entry}
            /\ loaded' = loaded \union {Entry}
    /\ UNCHANGED <<checking, src, stack>>

Next == Unreadable \/ Cycle \/ Enter \/ AlreadyLoaded \/ Return \/ Finish

Spec == Init /\ [][Next]_vars

\* The loader is one thread that waits for nothing but the file system.
FairSpec == Spec /\ WF_vars(Next)

-----------------------------------------------------------------------------
(* Properties.                                                             *)

Frames == [file : Files, next : Nat \ {0}, items : Seq(Files), uses : SUBSET Stdlib]

TypeOK ==
    /\ checking \in BOOLEAN
    /\ src \in [Files -> Sources]
    /\ stack \in Seq(Frames)
    /\ in_progress \subseteq Files /\ loaded \subseteq Files
    /\ outcome \in {"loading", "ok", "cycle", "io", "parse"}

Imports(f) == {src[f].local[k] : k \in 1..Len(src[f].local)}

\* The first frame is the parsed entry when checking, and is in neither set.
Floor == IF checking THEN 1 ELSE 0

\* load_recursive's in_progress set is its call stack: the files of the frames,
\* each once, each importing the next, and none of them finished.  The recursion
\* is then never deeper than there are files, whatever they import.
StackIsPath ==
    outcome = "loading" =>
        /\ in_progress = {stack[k].file : k \in (Floor + 1)..Len(stack)}
        /\ \A j, k \in (Floor + 1)..Len(stack) :
              stack[j].file = stack[k].file => j = k
        /\ \A k \in 1..(Len(stack) - 1) :
              /\ stack[k].next <= Len(src[stack[k].file].local)
              /\ stack[k + 1].file = src[stack[k].file].local[stack[k].next]
        /\ in_progress \intersect loaded = {}

\* Some file of S imports none of them: what a set of files without a cycle
\* among them has, and every set with one has a subset that does not.
HasSink(S) == \E f \in S : Imports(f) \intersect S = {}

\* docs/language.md section 3.2: cyclic imports are an error, and so is a file
\* that cannot be read: when the loader accepts, the entry and all that is
\* reached from it can be read, and there is no cycle among them.
AcceptedIsAcyclic ==
    outcome = "ok" =>
        LET all == loaded \union {Entry}
        IN /\ \A f \in all : src[f].state = "ok" /\ Imports(f) \subseteq all
           /\ \A S \in SUBSET all : S # {} => HasSink(S)

\* Each file from the k-th call on imports the next, and the last the first.
LoopFrom(k) ==
    /\ \A j \in k..(Len(stack) - 1) : stack[j + 1].file \in Imports(stack[j].file)
    /\ stack[k].file \in Imports(stack[Len(stack)].file)

\* The loader calls a cycle only what is one: the calls in progress lead from a
\* file back to it.  (A file imported along two paths is not one.)
CycleIsReal == outcome = "cycle" => \E k \in 1..Len(stack) : LoopFrom(k)

\* The loader's verdict, either way (loader.rs:115-117, 181).
VerdictIsRight == AcceptedIsAcyclic /\ CycleIsReal

\* A walk that keeps the files still to be looked at, after some steps from the
\* entry: the reference that the recursion is compared with.
WalkStart == [todo |-> <<Entry>>, out |-> <<>>]

Advance(sources, w) ==
    IF w.todo = <<>> THEN w
    ELSE LET f == Head(w.todo)
         IN IF \E k \in DOMAIN w.out : w.out[k] = f
            THEN [todo |-> Tail(w.todo), out |-> w.out]
            ELSE [todo |-> sources[f].local \o Tail(w.todo), out |-> Append(w.out, f)]

Walk(sources, steps) ==
    LET walk[n \in 0..steps] ==
            IF n = 0 THEN WalkStart ELSE Advance(sources, walk[n - 1])
    IN walk[steps]

\* loader.rs, load_with_imports, and docs/language.md section 3.2: the items of the
\* entry, then of each `use` target depth first, in declaration order, each file
\* once, with the names in scope of every file.
InlinedDepthFirst ==
    outcome = "ok" =>
        /\ LET w == Walk(src, MaxWalk) IN w.todo = <<>> => stack[1].items = w.out
        /\ stack[1].uses = UNION {src[f].uses : f \in loaded \union {Entry}}

\* Loading ends, with a module or an error.
Ends == <>(outcome # "loading")
=============================================================================
