----------------------------- MODULE TraceStack -----------------------------
(***************************************************************************)
(* The two stacks a Tracer keeps: the active intents and the scope path.   *)
(* A stack pair is a record [intents, scopes]; both are sequences whose    *)
(* last element is the innermost one.  Operators only: Tracer, Saga and    *)
(* Pipeline apply them to the stacks they carry as state.                  *)
(***************************************************************************)
EXTENDS Integers, Sequences

\* The scope argument None of intent_enter.
NoScope == "no scope"

\* The intent of an event recorded while no intent is active.
NoIntent == "no intent"

EmptyStacks == [intents |-> <<>>, scopes |-> <<>>]

\* Vec::pop: popping an empty vector is a no-op.
Popped(s) == IF s = <<>> THEN s ELSE SubSeq(s, 1, Len(s) - 1)

\* intent_enter pushes the scope only when it is given one.
IntentEnter(st, intent, scope) ==
    [intents |-> Append(st.intents, intent),
     scopes  |-> IF scope = NoScope THEN st.scopes ELSE Append(st.scopes, scope)]

\* Seeded fault: the intent stays on its stack.
BugIntentExit(st) == [st EXCEPT !.scopes = Popped(st.scopes)]

\* intent_exit pops both stacks, whether or not intent_enter pushed a scope.
IntentExit(st) == [intents |-> Popped(st.intents), scopes |-> Popped(st.scopes)]

\* The intent stamped on an event: the innermost active one.
ActiveIntent(st) == IF st.intents = <<>> THEN NoIntent ELSE st.intents[Len(st.intents)]

\* The scope path of intent_enter and intent_exit events, as the sequence of
\* names the code joins with dots; <<>> is the code's None (module level).
CurrentScope(st) == st.scopes
=============================================================================
