------------------------------ MODULE MCScript ------------------------------
(* Short scripts that assign, alias, compare, calculate and misuse results. *)
(* meant is what they mean so far: each statement takes effect when the    *)
(* interpreter has read it.                                                *)
EXTENDS ScriptLang

VARIABLE meant

MCNames == {"a", "b", "modified"} \cup (DOMAIN Arity \ Operators)
MCFunctions == DOMAIN Arity
MCStrings == {"", "0", "1", "k", "true", "false"} \cup {ToString(n) : n \in Ints}

Id(n) == [op |-> "id", name |-> n]
Lit(t) == [op |-> "lit", term |-> t]
Set(n, e) == [op |-> "=", l |-> Id(n), r |-> e]
Op(o, l, r) == [op |-> o, l |-> l, r |-> r]
Neg(e) == [op |-> "neg", e |-> e]
Call(f, args) == [op |-> "call", fun |-> f, args |-> args]
Is(e) == [op |-> "bool", e |-> e]
Not(c) == [op |-> "not", e |-> c]
Cmp(l, rel, r) == [op |-> "cmp", rel |-> rel, l |-> l, r |-> r]
Do(a) == [op |-> "do", action |-> a]
Rule(c, block) == [op |-> "rule", cond |-> c, block |-> block]

One == Lit(Num(1))
Key == Lit(Str("k"))
A == Id("a")
B == Id("b")

\* Statements that use what a function without a result returns.
Misuses == {
    Do(Set("a", Call("setenv", <<Key, B>>))),
    Do(Set("b", Call("setenv", <<Key, Op("-", B, A)>>))),
    Do(Call("print", <<Call("setenv", <<Key, B>>)>>)),
    Do(Set("b", Call("print", <<B>>)))}

Statements == Misuses \cup {
    Do(Set("a", Lit(Str("1")))),
    Do(Set("b", A)),
    Do(Set("a", Op("+", B, Op("-", One, Id("modified"))))),
    Do(Call("setenv", <<Key, A>>)),
    Do(Set("b", Call("getenv", <<Key>>))),
    Rule(Op("or", Cmp(A, "<", One), Not(Is(B))), <<Set("a", Neg(One)), Set("b", A)>>),
    Rule(Op("and", Is(A), Cmp(A, "==", Lit(Bool(TRUE)))), <<Set("a", Lit(Bool(FALSE)))>>),
    Rule(Cmp(A, "!=", B), <<Call("setenv", <<Key, B>>), Set("b", Neg(A))>>),
    Rule(Is(A), <<Set("a", Lit(Str("0"))), Set("b", Neg(A))>>),
    Rule(Cmp(B, ">", A), <<Call("setenv", <<Key, A>>), Call("poweroff", <<>>), Set("b", One)>>),
    Do(Call("sleep", <<A>>)),
    Do(Call("vars", <<>>)),
    Do(Set("b", Call("getenv", <<>>))),
    [op |-> "error"]}

\* What the theorems on careful scripts take for careful are the other statements.
ASSUME CarefulAreTheOthers == \A s \in Statements : Careful(Post(s)) <=> s \notin Misuses

MCInputs == {<<>>} \cup {<<s>> : s \in Statements} \cup {<<s, t>> : s, t \in Statements}

MCInit ==
    /\ Init
    /\ meant = [store |-> [n \in Names |-> IF n = "modified" THEN Bool(FALSE) ELSE Unset],
                env |-> env, last |-> Nothing, off |-> FALSE, wild |-> FALSE]

MCNext ==
    /\ Next
    /\ meant' = CASE Len(input') < Len(input) -> Exec(Head(input), meant)
                  [] parsing' /\ ~parsing -> [meant EXCEPT !.last = Nothing]
                  [] OTHER -> meant

MCSpec == MCInit /\ [][MCNext]_<<vars, meant>>

\* Between two statements every variable holds what the script means, and so does
\* the environment: no alias, no collection and no error before changes that.  A
\* device is off when the script means it, with what it has set before and no more.
MeansWhatItSays ==
    (halted = "no" /\ frames = <<>> /\ code = <<>>) \/ halted = "off" =>
        meant.wild \/ /\ meant.off = (halted = "off")
                      /\ env = meant.env
                      /\ \A n \in Names :
                             meant.store[n] # Unspecified => Meaning(n) = meant.store[n]

\* repl() prints the value of the last statement that was accepted, and nothing where
\* that is a rule or none was: never what a line before has left.
AnswersLastStatement ==
    halted = "no" /\ frames # <<>> /\ Head(frames).f = "shown" /\ ~meant.wild =>
        /\ meant.last # Nothing
        /\ Usable(meant.last) => Deref(ret).string = AsText(meant.last)

\* Only a script that has used, or kept, a result without meaning reaches a pointer
\* to nothing or the end of the stack.
OnlyMisuseCrashes ==
    halted \in {"null", "stack"} =>
        meant.wild \/ \E n \in Names : meant.store[n] = Unspecified
=============================================================================
