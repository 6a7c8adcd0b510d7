----------------------------- MODULE ScriptLang -----------------------------
(***************************************************************************)
(* What a boot script means, stated without heap, pointers and stacks:     *)
(* variables hold values, an expression has a value, a statement changes   *)
(* what variables hold.  A state of the language is a record of            *)
(*   store   what each variable holds; "unset" reads as the empty string,  *)
(*           "unspecified" is the result of a function that has none       *)
(*   env     the U-Boot variables                                          *)
(*   last    the value of the last statement, which repl() prints          *)
(*   off     the script has switched the device off                        *)
(*   wild    the script has used something without meaning, and nothing    *)
(*           is said of what it does from then on                          *)
(* A negation has the value it has when its statement is read, which is    *)
(* before the actions that stand in front of it in a block.                *)
(***************************************************************************)
EXTENDS Script, SequencesExt

-----------------------------------------------------------------------------
(* The order in which bison reduces a statement: operands before operators, *)
(* from the left to the right, the condition of a rule before its block.   *)

Identifier(n) == [r |-> "shift", term |-> [kind |-> "identifier", name |-> n]]

RECURSIVE Post(_)
Post(e) ==
    CASE e.op = "id" -> <<Identifier(e.name)>>
      [] e.op = "lit" -> <<[r |-> "shift", term |-> e.term]>>
      [] e.op \in {"+", "-", "="} -> Post(e.l) \o Post(e.r) \o <<[r |-> "fun", fun |-> e.op, n |-> 2]>>
      [] e.op = "call" ->
             <<Identifier(e.fun)>> \o FlattenSeq([i \in 1 .. Len(e.args) |-> Post(e.args[i])])
                 \o <<[r |-> "fun", fun |-> e.fun, n |-> Len(e.args)]>>
      [] e.op \in {"neg", "bool", "not"} -> Post(e.e) \o <<[r |-> e.op]>>
      [] e.op \in {"and", "or"} -> Post(e.l) \o Post(e.r) \o <<[r |-> e.op]>>
      [] e.op = "cmp" -> Post(e.l) \o Post(e.r) \o <<[r |-> "cmp", rel |-> e.rel]>>
      [] e.op = "do" -> Post(e.action) \o <<[r |-> "run"]>>
      [] e.op = "rule" ->
             Post(e.cond) \o FlattenSeq([i \in 1 .. Len(e.block) |-> Post(e.block[i])])
                 \o <<[r |-> "rule", n |-> Len(e.block)]>>
      [] e.op = "error" -> <<[r |-> "error"]>>

-----------------------------------------------------------------------------
(* Values.                                                                 *)

Unset == [kind |-> "unset"]
Unspecified == [kind |-> "unspecified"]
Wild == [kind |-> "wild"]
Nothing == [kind |-> "nothing"]

Usable(v) == v.kind \in {"string", "number", "boolean"}

AsText(v) == IF v.kind = "string" THEN v.string ELSE Text(v)

\* The value of e in s, in a statement that is read in the state read.
RECURSIVE Value(_, _, _)
Value(e, s, read) ==
    CASE e.op = "lit" -> e.term
      [] e.op = "id" ->
             LET v == s.store[e.name]
             IN CASE v = Unset -> Str("")
                  [] v = Unspecified -> Wild
                  [] OTHER -> v
      [] e.op \in {"+", "-"} ->
             LET l == Value(e.l, s, read)
                 r == Value(e.r, s, read)
             IN IF Usable(l) /\ Usable(r)
                THEN Num(Wrap(ToNumber(l) + (IF e.op = "+" THEN 1 ELSE -1) * ToNumber(r)))
                ELSE Wild
      [] e.op = "neg" ->
             LET v == Value(e.e, read, read)
             IN IF Usable(v) THEN Num(Wrap(-ToNumber(v))) ELSE Wild
      [] e.op = "call" ->
             LET args == [i \in 1 .. Len(e.args) |-> Value(e.args[i], s, read)]
             IN IF \/ \E i \in DOMAIN args : ~Usable(args[i])
                   \/ e.fun = "sleep" /\ args = <<>>
                   \/ e.fun = "vars" /\ Unspecified \in Range(s.store)
                THEN Wild
                ELSE IF e.fun = "getenv" THEN Str(s.env[AsText(args[1])]) ELSE Unspecified

RECURSIVE Negations(_)
Negations(e) ==
    CASE e.op = "neg" -> {e}
      [] e.op \in {"+", "-", "="} -> Negations(e.l) \cup Negations(e.r)
      [] e.op = "call" -> UNION {Negations(e.args[i]) : i \in DOMAIN e.args}
      [] OTHER -> {}

\* The truth value of a condition as a set, which is empty when a part of it has no
\* meaning: all parts are evaluated.  Values are compared within their kind, and numbers
\* are ordered when their difference is a number too.
RECURSIVE Truth(_, _)
Truth(c, s) ==
    CASE c.op = "bool" ->
             LET v == Value(c.e, s, s) IN IF Usable(v) THEN {ToBoolean(v)} ELSE {}
      [] c.op = "not" -> {~b : b \in Truth(c.e, s)}
      [] c.op = "and" -> {p[1] /\ p[2] : p \in Truth(c.l, s) \X Truth(c.r, s)}
      [] c.op = "or" -> {p[1] \/ p[2] : p \in Truth(c.l, s) \X Truth(c.r, s)}
      [] c.op = "cmp" ->
             LET l == Value(c.l, s, s)
                 r == Value(c.r, s, s)
                 equality == c.rel \in {"==", "!="}
             IN IF ~Usable(l) \/ l.kind # r.kind THEN {}
                ELSE CASE equality -> {(l = r) = (c.rel = "==")}
                       [] ~equality /\ l.kind = "number" /\ l.number - r.number \in Ints ->
                              {Holds(c.rel, l.number - r.number)}
                       [] OTHER -> {}

Assigned(s, n, v) ==
    IF s.off THEN s
    ELSE IF v = Wild THEN [s EXCEPT !.wild = TRUE] ELSE [s EXCEPT !.store[n] = v]

RECURSIVE Act(_, _, _)
Act(a, s, read) ==
    LET wild == a.op = "call" /\ Value(a, s, read) = Wild
        calls(f) == a.op = "call" /\ a.fun = f /\ ~wild
    IN IF s.off THEN s
       ELSE CASE a.op = "=" ->
                   LET after == IF a.r.op = "call" THEN Act(a.r, s, read) ELSE s
                   IN Assigned(after, a.l.name, Value(a.r, s, read))
              [] wild -> [s EXCEPT !.wild = TRUE]
              [] calls("setenv") ->
                   [s EXCEPT !.env[AsText(Value(a.args[1], s, read))] =
                                 AsText(Value(a.args[2], s, read)),
                             !.store["modified"] = Bool(TRUE)]
              [] calls("poweroff") -> [s EXCEPT !.off = TRUE]
              [] OTHER -> s

Result(a, s) == Value(IF a.op = "=" THEN a.r ELSE a, s, s)

\* A statement that is not one, or calls a function with too few parameters, has no
\* effect.
Accepted(st) ==
    \A i \in 1 .. Len(Post(st)) :
        LET c == Post(st)[i] IN c.r # "error" /\ (c.r = "fun" => c.n >= Arity[c.fun])

\* A statement.  What a condition without meaning decides has none either.
Exec(st, s) ==
    IF s.wild \/ s.off \/ ~Accepted(st) THEN s
    ELSE IF st.op = "do" THEN [Act(st.action, s, s) EXCEPT !.last = Result(st.action, s)]
    ELSE LET truth ==
                 IF \E e \in UNION {Negations(a) : a \in Range(st.block)} : Value(e, s, s) = Wild
                 THEN {}
                 ELSE Truth(st.cond, s)
             after == [s EXCEPT !.last = Nothing]
         IN CASE truth = {TRUE} -> FoldLeft(LAMBDA x, a : Act(a, x, s), after, st.block)
              [] truth = {FALSE} -> after
              [] OTHER -> [s EXCEPT !.wild = TRUE]
=============================================================================
