------------------------------- MODULE Script -------------------------------
(***************************************************************************)
(* The interpreter of the boot script (parser.y, script.c).  The parser    *)
(* that bison generates is a stack machine: a script is to it a sequence   *)
(* of reductions, which build terms in the heap, evaluate conditions as    *)
(* soon as they are complete, and run an action when its statement is.     *)
(* code is that sequence.  Running a term is a walk over the heap by       *)
(* functions that call each other; frames is their stack, and each step of *)
(* it does one thing to the heap.                                          *)
(*                                                                         *)
(* The functions of the language are represented by one of each kind:      *)
(* print for those that return NULL, getenv for those that return a new    *)
(* string, setenv for the one that returns its parameter, sleep for those  *)
(* that read a parameter the table does not ask for, vars for those that   *)
(* walk the program's own lists, poweroff for those that do not return.    *)
(***************************************************************************)
EXTENDS ScriptHeap, TLC

CONSTANTS
    Inputs,        \* what eval_string() and eval_file() are called with: sequences of statements
    IntBits,       \* the width of an int
    MaxEvals,      \* bound: calls of eval_string() and eval_file()
    MaxDepth,      \* bound: the stack of PID 1, in frames
    Reductions(_)  \* what bison reduces a statement by, in its order

VARIABLES
    input,         \* statements that flex still has in its buffer
    code,          \* reductions of the current statement
    stack,         \* bison's stack of semantic values
    frames,        \* what the running functions still have to do
    ret,           \* what the last one returned
    result,        \* parser_result
    env,           \* working_uboot_env
    parsing,       \* inside yyparse()
    typed,         \* the input is a line that repl() has read
    evals

parseVars == <<result, parsing, typed, evals>>
scriptVars == <<input, code, stack, frames, ret, env, parseVars>>
vars == <<heapVars, scriptVars>>

-----------------------------------------------------------------------------
(* Values.                                                                 *)

Str(s) == [kind |-> "string", string |-> s]
Num(n) == [kind |-> "number", number |-> n]
Bool(b) == [kind |-> "boolean", boolean |-> b]

MaxInt == 2 ^ (IntBits - 1) - 1
Ints == -(MaxInt + 1) .. MaxInt
Wrap(n) == ((n + MaxInt + 1) % 2 ^ IntBits) - (MaxInt + 1)

ToNumber(t) ==
    CASE t.kind = "number" -> t.number
      [] t.kind = "boolean" -> IF t.boolean THEN 1 ELSE 0
      [] t.kind = "string" /\ \E n \in Ints : ToString(n) = t.string ->
             CHOOSE n \in Ints : ToString(n) = t.string
      [] OTHER -> 0

ToBoolean(t) ==
    \/ t.kind = "string" /\ t.string \notin {"", "0", "false"}
    \/ t.kind = "number" /\ t.number # 0
    \/ t.kind = "boolean" /\ t.boolean

\* The text of a term that is no string.
Text(t) ==
    CASE t.kind = "number" -> ToString(t.number)
      [] t.kind = "boolean" -> (IF t.boolean THEN "true" ELSE "false")
      [] OTHER -> ""

\* The signs of a string, number or boolean compared with another term, which is read
\* as what the left one is: a number as a pointer, which is fatal, a pointer as a
\* number, or a name or a function's code as a string.  The order of different strings
\* is abstracted from.
Signs(l, r) ==
    CASE l.kind = "number" /\ r.kind = "number" -> {Wrap(l.number - r.number)}
      [] l.kind = "boolean" /\ r.kind = "boolean" -> {ToNumber(l) - ToNumber(r)}
      [] l.kind = "string" /\ r.kind = "string" ->
             IF l.string = r.string THEN {0} ELSE {-1, 1}
      [] l.kind = "string" /\ r.kind \in {"number", "boolean"} -> {}
      [] OTHER -> {-1, 0, 1}

\* What term_compare() returns for two resolved terms; nothing where it is fatal.  It
\* reads the right one unless the left one is an unevaluated name or call.
Compared(p, q) ==
    IF p = Null THEN {}
    ELSE IF Deref(p).kind \in {"identifier", "fun"} THEN {1}
    ELSE IF q = Null THEN {} ELSE Signs(Deref(p), Deref(q))

Holds(rel, sign) ==
    \/ rel \in {"==", "<=", ">="} /\ sign = 0
    \/ rel \in {"!=", "<", "<="} /\ sign < 0
    \/ rel \in {"!=", ">", ">="} /\ sign > 0

-----------------------------------------------------------------------------
(* Running terms.                                                          *)

\* function_table.  More parameters than that are accepted.
Arity ==
    [f \in {"=", "+", "-", "setenv", "print", "getenv", "sleep", "vars", "poweroff"} |->
        IF f \in {"=", "+", "-", "setenv"} THEN 2 ELSE IF f \in {"print", "getenv"} THEN 1 ELSE 0]

\* Mutant: a function is looked up by its name only.
KnownByName(name, n) == name \in DOMAIN Arity

\* lookup_function(): the entry of that name that n parameters are enough for.
Known(name, n) == name \in DOMAIN Arity /\ n >= Arity[name]

Resolve(p) == [f |-> "resolve", ptr |-> p]
ToStr == [f |-> "text"]

\* What the function of a call does first.
Body(t) ==
    LET first == Resolve(IF t.params = <<>> THEN Null ELSE t.params[1])
    IN CASE t.fun = "=" -> <<Resolve(t.params[2]), [f |-> "assign", name |-> Deref(t.params[1]).name]>>
         [] t.fun \in {"+", "-"} -> <<first, [f |-> "left", fun |-> t.fun, right |-> t.params[2]]>>
         [] t.fun = "print" -> <<[f |-> "print", rest |-> t.params]>>
         [] t.fun = "getenv" -> <<first, ToStr, [f |-> "getenv"]>>
         [] t.fun = "setenv" -> <<first, ToStr, [f |-> "setname", value |-> t.params[2]]>>
         [] t.fun = "sleep" -> <<first, [f |-> "sleep"]>>
         [] t.fun \in {"vars", "poweroff"} -> <<[f |-> t.fun]>>

Running(f) ==
    /\ halted = "no" /\ ~collecting
    /\ frames # <<>> /\ Head(frames).f = f

Goto(new) ==
    /\ frames' = new \o Tail(frames)
    /\ UNCHANGED <<input, code, stack, env, parseVars>>

Push(v) ==
    /\ stack' = Append(stack, v)
    /\ frames' = Tail(frames)
    /\ UNCHANGED <<input, code, ret, env, parseVars>>

Return(p) == ret' = p /\ Goto(<<>>)

\* term_resolve(), get_variable() and run_function().
RunResolve ==
    /\ Running("resolve") /\ Head(frames).ptr # Null
    /\ LET p == Head(frames).ptr
           t == Deref(p)
       IN \/ /\ t.kind = "identifier" /\ Found(variables, t.name)
             /\ Goto(<<Resolve(variables[Find(variables, t.name)].value)>>)
             /\ UNCHANGED <<heapVars, ret>>
          \/ /\ t.kind = "identifier" /\ ~Found(variables, t.name)
             /\ NewTerm(Str("")) /\ Return(NextPointer)
          \/ /\ t.kind = "fun" /\ Len(frames) <= MaxDepth
             /\ Goto(Body(t)) /\ UNCHANGED <<heapVars, ret>>
          \/ /\ t.kind = "fun" /\ Len(frames) > MaxDepth
             /\ halted' = "stack"
             /\ UNCHANGED <<gen, heap, used, variables, collecting, oldHeap, oldVariables, scriptVars>>
          \/ /\ t.kind \in {"string", "number", "boolean"}
             /\ Return(p) /\ UNCHANGED heapVars

\* Mutant: the term that the variable holds is overwritten, whoever else holds it.
RunAssignInPlace ==
    /\ Running("assign")
    /\ LET n == Head(frames).name
           held == IF Found(variables, n) THEN variables[Find(variables, n)].value ELSE Null
       IN IF held # Null /\ ret # Null
          THEN /\ heap' = [heap EXCEPT ![held.at] = Deref(ret)]
               /\ UNCHANGED <<gen, used, variables, collecting, oldHeap, oldVariables, halted>>
          ELSE SetVariable(n, ret)
    /\ Return(ret)

RunAssign ==
    /\ Running("assign")
    /\ SetVariable(Head(frames).name, ret)
    /\ Return(ret)

RunLeft ==
    /\ Running("left") /\ ret # Null
    /\ Goto(<<Resolve(Head(frames).right),
              [f |-> "right", fun |-> Head(frames).fun, left |-> ToNumber(Deref(ret))]>>)
    /\ UNCHANGED <<heapVars, ret>>

RunRight ==
    /\ Running("right") /\ ret # Null
    /\ LET a == Head(frames).left
           b == ToNumber(Deref(ret))
       IN NewTerm(Num(Wrap(IF Head(frames).fun = "+" THEN a + b ELSE a - b)))
    /\ Return(NextPointer)

\* term_to_string(), behind the term_resolve() it begins with.
RunText ==
    /\ Running("text") /\ ret # Null
    /\ LET t == Deref(ret)
       IN \/ t.kind = "string" /\ Goto(<<>>) /\ UNCHANGED <<heapVars, ret>>
          \/ t.kind = "identifier" /\ Goto(<<Resolve(ret), ToStr>>) /\ UNCHANGED <<heapVars, ret>>
          \/ t.kind \in {"number", "boolean", "fun"} /\ NewTerm(Str(Text(t))) /\ Return(NextPointer)

RunPrint ==
    /\ Running("print") /\ UNCHANGED heapVars
    /\ LET rest == Head(frames).rest
       IN \/ rest = <<>> /\ Return(Null)
          \/ /\ rest # <<>> /\ UNCHANGED ret
             /\ Goto(<<Resolve(Head(rest)), ToStr, [f |-> "print", rest |-> Tail(rest)]>>)

RunGetenv ==
    /\ Running("getenv")
    /\ NewTerm(Str(env[Deref(ret).string]))
    /\ Return(NextPointer)

\* The variable "modified" is uboot_env.modified.
RunSetenv ==
    \/ /\ Running("setname") /\ UNCHANGED <<heapVars, ret>>
       /\ LET value == Head(frames).value
          IN Goto(<<Resolve(value), ToStr,
                    [f |-> "setenv", name |-> Deref(ret).string, value |-> value]>>)
    \/ /\ Running("setenv")
       /\ env' = [env EXCEPT ![Head(frames).name] = Deref(ret).string]
       /\ NewTerm(Bool(TRUE))
       /\ frames' = <<[f |-> "modified", ptr |-> NextPointer, value |-> Head(frames).value]>>
                        \o Tail(frames)
       /\ UNCHANGED <<input, code, stack, ret, parseVars>>
    \/ /\ Running("modified")
       /\ SetVariable("modified", Head(frames).ptr)
       /\ Return(Head(frames).value)

\* function_sleep(), when it has its number.
RunSleep ==
    /\ Running("sleep") /\ ret # Null
    /\ Return(Null) /\ UNCHANGED heapVars

\* What inspect() reads: the kind of a variable's value.
Inspects(p) == p # Null

RunVars ==
    /\ Running("vars")
    /\ \A i \in 1 .. Len(variables) : Inspects(variables[i].value)
    /\ Return(Null) /\ UNCHANGED heapVars

\* Neither reboot() nor exit() returns, and what they end is not there any more.
RunPoweroff ==
    /\ Running("poweroff")
    /\ halted' = "off"
    /\ UNCHANGED <<gen, heap, used, variables, collecting, oldHeap, oldVariables, scriptVars>>

\* Mutant: a rule leaves the result of the statement before it.
RunResultOfAction ==
    \/ /\ Running("result")
       /\ result' = ret
       /\ frames' = Tail(frames)
       /\ UNCHANGED <<heapVars, input, code, stack, ret, env, parsing, typed, evals>>
    \/ Running("no result") /\ Goto(<<>>) /\ UNCHANGED <<heapVars, ret>>

\* What a statement leaves in parser_result: its action's result, or nothing if it
\* is a rule.
RunResult ==
    \E f \in {"result", "no result"} :
        /\ Running(f)
        /\ result' = IF f = "result" THEN ret ELSE Null
        /\ frames' = Tail(frames)
        /\ UNCHANGED <<heapVars, input, code, stack, ret, env, parsing, typed, evals>>

\* repl() has printed the result.
RunShown == Running("shown") /\ Goto(<<>>) /\ UNCHANGED <<heapVars, ret>>

\* The variables that main() sets before the first script; of these the run needs one.
SetDefaults ==
    /\ Running("defaults")
    /\ NewTerm(Bool(FALSE))
    /\ frames' = <<[f |-> "modified", ptr |-> NextPointer, value |-> Null]>> \o Tail(frames)
    /\ UNCHANGED <<input, code, stack, ret, env, parseVars>>

\* What a condition or a negation is complete with.
RunCondition ==
    \/ /\ Running("bool") /\ ret # Null
       /\ Push([bool |-> ToBoolean(Deref(ret))]) /\ UNCHANGED heapVars
    \/ /\ Running("neg") /\ ret # Null
       /\ NewTerm(Num(Wrap(-ToNumber(Deref(ret))))) /\ Push([ptr |-> NextPointer])

RunCompare ==
    \/ /\ Running("cmp") /\ UNCHANGED <<heapVars, ret>>
       /\ Goto(<<Resolve(Head(frames).right),
                 [f |-> "compare", rel |-> Head(frames).rel, left |-> ret]>>)
    \/ /\ Running("compare")
       /\ \E sign \in Compared(Head(frames).left, ret) :
              Push([bool |-> Holds(Head(frames).rel, sign)])
       /\ UNCHANGED heapVars

\* The terms that a function reads without looking whether there is one.
BadPointer ==
    /\ halted = "no" /\ ~collecting /\ frames # <<>>
    /\ LET top == Head(frames)
       IN \/ top.f = "resolve" /\ top.ptr = Null
          \/ top.f \in {"left", "right", "text", "bool", "neg", "sleep"} /\ ret = Null
          \/ top.f = "vars" /\ \E i \in 1 .. Len(variables) : ~Inspects(variables[i].value)
          \/ top.f = "compare" /\ Compared(top.left, ret) = {}
    /\ NullDeref /\ UNCHANGED scriptVars

Run ==
    \/ RunResolve \/ RunAssign \/ RunLeft \/ RunRight \/ RunText \/ RunPrint
    \/ RunGetenv \/ RunSetenv \/ RunSleep \/ RunVars \/ RunPoweroff \/ RunResult \/ RunShown
    \/ RunCondition \/ RunCompare \/ BadPointer \/ SetDefaults

-----------------------------------------------------------------------------
(* The grammar: which reductions may follow each other.  On bison's stack   *)
(* there are terms, identifiers among them, and booleans (%type).  A call   *)
(* takes its name from there, which is an identifier like a variable's.     *)

Rels == {"==", "!=", "<", "<=", ">", ">="}

\* What the lexer makes of a word.
Literals == {t \in Term : t.kind # "fun" /\ (t.kind = "number" => t.number \in Ints)}

Reduction ==
    [r : {"shift"}, term : Literals]
        \cup [r : {"fun"}, fun : STRING, n : Nat]
        \cup [r : {"neg", "bool", "not", "and", "or", "run", "error"}]
        \cup [r : {"cmp"}, rel : Rels]
        \cup [r : {"rule"}, n : Nat]

\* The functions that return no value: NULL, or a parameter as it stands.  Bison takes such
\* a call for a term like any other.
Resultless == {"setenv", "print", "sleep", "vars", "poweroff"}

\* The entries of function_table that are called without their name.
Operators == {"=", "+", "-"}

Symbols == {"identifier", "term", "call", "boolean"}

\* How many values a reduction takes from the stack, and what it puts there.
Taken(c) ==
    CASE c.r \in {"shift", "error"} -> 0
      [] c.r \in {"bool", "neg", "not", "run"} -> 1
      [] c.r \in {"and", "or", "cmp"} -> 2
      [] c.r = "fun" -> IF c.fun \in Operators THEN c.n ELSE c.n + 1
      [] c.r = "rule" -> c.n + 1

Left(c) ==
    CASE c.r = "shift" -> <<IF c.term.kind = "identifier" THEN "identifier" ELSE "term">>
      [] c.r = "fun" -> <<IF c.fun \in Resultless THEN "call" ELSE "term">>
      [] c.r = "neg" -> <<"term">>
      [] c.r \in {"bool", "not", "and", "or", "cmp"} -> <<"boolean">>
      [] c.r \in {"run", "rule", "error"} -> <<>>

Reduced(c, s) == SubSeq(s, 1, Len(s) - Taken(c)) \o Left(c)

Fits(c, s) ==
    LET n == Taken(c)
        taken(i) == s[Len(s) - n + i]
    IN /\ n <= Len(s)
       /\ c.r \in {"not", "and", "or"} => \A i \in 1 .. n : taken(i) = "boolean"
       /\ c.r \in {"fun", "neg", "bool", "cmp", "run"} => \A i \in 1 .. n : taken(i) # "boolean"
       /\ c.r = "rule" => taken(1) = "boolean" /\ \A i \in 2 .. n : taken(i) # "boolean"
       /\ c.r = "fun" /\ c.fun \notin {"+", "-"} => n > 0 /\ taken(1) = "identifier"

\* The stack before each of the reductions cs, and after the last.
Derivation(cs, stacks) ==
    /\ cs \in Seq(Reduction)
    /\ stacks \in [1 .. Len(cs) + 1 -> Seq(Symbols)]
    /\ \A i \in 1 .. Len(cs) :
           Fits(cs[i], stacks[i]) /\ stacks[i + 1] = Reduced(cs[i], stacks[i])
    /\ stacks[Len(cs) + 1] = <<>>

Stacks(cs) ==
    LET stacks[i \in 1 .. Len(cs) + 1] ==
            IF i = 1 THEN <<>> ELSE Reduced(cs[i - 1], stacks[i - 1])
    IN stacks

\* A reduction that takes only values from the stack, and gives sleep() its number.
Uses(c, s) ==
    /\ c.r \in {"fun", "neg", "bool", "cmp"} =>
           \A i \in 1 .. Taken(c) : s[Len(s) - Taken(c) + i] # "call"
    /\ c.r = "fun" /\ c.fun = "sleep" => c.n > 0

\* A statement that uses no result of a function that has none.
Careful(cs) == \E stacks \in {Stacks(cs)} : \A i \in 1 .. Len(cs) : Uses(cs[i], stacks[i])

Grammatical(cs) == \E stacks \in {Stacks(cs)} : stacks[1] = <<>> /\ Derivation(cs, stacks)

AllStatements == UNION {{s[i] : i \in DOMAIN s} : s \in Inputs}

ASSUME ScriptAssumption ==
    /\ MaxInt \in Nat \ {0} /\ 2 ^ IntBits = 2 * (MaxInt + 1)
    /\ {"", "true", "false"} \cup {ToString(n) : n \in Ints} \subseteq Strings
    /\ "modified" \in Names /\ DOMAIN Arity \subseteq Functions
    /\ Inputs \subseteq Seq(AllStatements)
    /\ \A s \in AllStatements : Grammatical(Reductions(s))

-----------------------------------------------------------------------------
(* The parser.                                                             *)

Reducing(rs) ==
    /\ halted = "no" /\ ~collecting /\ parsing /\ frames = <<>>
    /\ code # <<>> /\ Head(code).r \in rs

\* The stack without its n topmost values, and the i-th of those.
Below(n) == SubSeq(stack, 1, Len(stack) - n)
Top(n, i) == stack[Len(stack) - n + i]

\* Mutant: the block is run in the order in which bison has linked it.
BlockUnreversed(n) == [i \in 1 .. n |-> Resolve(Top(n, n + 1 - i).ptr)]

\* The actions of a block, in the order in which they are written.
Block(n) == [i \in 1 .. n |-> Resolve(Top(n, i).ptr)]

Shift ==
    /\ Reducing({"shift"})
    /\ NewTerm(Head(code).term)
    /\ stack' = Append(stack, [ptr |-> NextPointer])
    /\ code' = Tail(code)
    /\ UNCHANGED <<input, frames, ret, env, parseVars>>

NewFun ==
    /\ Reducing({"fun"}) /\ Known(Head(code).fun, Head(code).n)
    /\ LET n == Head(code).n
       IN /\ NewTerm([kind |-> "fun", fun |-> Head(code).fun,
                      params |-> [i \in 1 .. n |-> Top(n, i).ptr]])
          /\ stack' = Append(Below(Taken(Head(code))), [ptr |-> NextPointer])
    /\ code' = Tail(code)
    /\ UNCHANGED <<input, frames, ret, env, parseVars>>

Logic ==
    /\ Reducing({"not", "and", "or"})
    /\ stack' =
         CASE Head(code).r = "not" -> Append(Below(1), [bool |-> ~Top(1, 1).bool])
           [] Head(code).r = "and" -> Append(Below(2), [bool |-> Top(2, 1).bool /\ Top(2, 2).bool])
           [] Head(code).r = "or" -> Append(Below(2), [bool |-> Top(2, 1).bool \/ Top(2, 2).bool])
    /\ code' = Tail(code)
    /\ UNCHANGED <<heapVars, input, frames, ret, env, parseVars>>

\* The reductions that run terms: conditions and negations at once, a single action
\* at the end of its statement, a block only if its condition was true.
Evaluate ==
    /\ Reducing({"bool", "neg", "cmp", "run", "rule"})
    /\ LET c == Head(code)
       IN \/ /\ c.r \in {"bool", "neg"}
             /\ stack' = Below(1)
             /\ frames' = <<Resolve(Top(1, 1).ptr), [f |-> c.r]>>
          \/ /\ c.r = "cmp"
             /\ stack' = Below(2)
             /\ frames' = <<Resolve(Top(2, 1).ptr),
                            [f |-> "cmp", rel |-> c.rel, right |-> Top(2, 2).ptr]>>
          \/ /\ c.r = "run"
             /\ stack' = Below(1)
             /\ frames' = <<Resolve(Top(1, 1).ptr), [f |-> "result"]>>
          \/ /\ c.r = "rule"
             /\ stack' = Below(c.n + 1)
             /\ frames' = (IF Top(c.n + 1, 1).bool THEN Block(c.n) ELSE <<>>)
                              \o <<[f |-> "no result"]>>
    /\ code' = Tail(code)
    /\ UNCHANGED <<heapVars, input, ret, env, parseVars>>

\* yyparse() returns.  repl() prints what the line has left in parser_result, whether
\* or not all of it was accepted; term_to_string() runs it if it is a call.
EndParse ==
    /\ parsing' = FALSE
    /\ frames' = IF typed /\ result # Null
                 THEN <<Resolve(result), ToStr, [f |-> "shown"]>>
                 ELSE <<>>
    /\ UNCHANGED <<heapVars, input, ret, env, result, typed, evals>>

\* yyerror(), also for a function that the table does not have.  Flex keeps what it has
\* not read yet: here the statements behind, since what is rejected is the last thing
\* in its statement.
SyntaxError ==
    /\ Reducing({"error", "fun"})
    /\ Head(code).r = "fun" => ~Known(Head(code).fun, Head(code).n)
    /\ code' = <<>>
    /\ stack' = <<>>
    /\ EndParse

NextStatement ==
    /\ halted = "no" /\ ~collecting /\ parsing /\ frames = <<>> /\ code = <<>>
    /\ input # <<>>
    /\ code' = Reductions(Head(input))
    /\ input' = Tail(input)
    /\ UNCHANGED <<heapVars, stack, frames, ret, env, parseVars>>

EndOfInput ==
    /\ halted = "no" /\ ~collecting /\ parsing /\ frames = <<>> /\ code = <<>>
    /\ input = <<>>
    /\ EndParse
    /\ UNCHANGED <<code, stack>>

\* lexer_set_input(), and lexer_set_file() of a file that can be read or not.  The
\* input goes behind what an error has left in flex's buffer, and the first reduction
\* clears parser_result.
SetInput ==
    \/ typed' = FALSE /\ UNCHANGED <<input, parsing, result>>
    \/ /\ \E s \in Inputs : input' = input \o s
       /\ typed' \in BOOLEAN
       /\ parsing' = TRUE
       /\ result' = Null

\* eval_string() and eval_file().
Eval ==
    /\ ~parsing /\ frames = <<>> /\ evals < MaxEvals
    /\ StartGc
    /\ SetInput
    /\ evals' = evals + 1
    /\ UNCHANGED <<code, stack, frames, ret, env>>

Collect == (CopyVariable \/ FreeOldHeap) /\ UNCHANGED scriptVars

\* PID 1 is dead, or the bound is reached.
Ended ==
    /\ halted # "no" \/ (~parsing /\ ~collecting /\ evals = MaxEvals)
    /\ UNCHANGED vars

Init ==
    /\ HeapInit
    /\ input = <<>> /\ code = <<>> /\ stack = <<>>
    /\ frames = <<[f |-> "defaults"]>>
    /\ ret = Null
    /\ env = [s \in Strings |-> ""]
    /\ result = Null
    /\ parsing = FALSE /\ typed = FALSE
    /\ evals = 0

Next ==
    \/ Run \/ Shift \/ NewFun \/ Logic \/ Evaluate \/ SyntaxError
    \/ NextStatement \/ EndOfInput \/ Eval \/ Collect \/ Ended

Spec == Init /\ [][Next]_vars

-----------------------------------------------------------------------------
\* script.c:261 says of the terms that term_compare() is about to compare "Left and
\* right are the same now": they are of the same kind.
ComparesSameKind ==
    frames # <<>> /\ Head(frames).f = "compare" /\ Head(frames).left # Null /\ ret # Null =>
        Deref(Head(frames).left).kind = Deref(ret).kind
=============================================================================
