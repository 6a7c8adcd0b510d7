---------------------------- MODULE ScriptProofs ----------------------------
(***************************************************************************)
(* That the interpreter implements ScriptHeap: whatever the scripts, the   *)
(* sizes and the number of inputs, all that it does to the heap is one of  *)
(* the things HeapNext allows, although it keeps pointers of its own on    *)
(* three stacks: bison's, the C stack, and in what functions return.  None *)
(* of them is stale when it is used, because a collection starts only when *)
(* all three are empty.                                                    *)
(*                                                                         *)
(* The second part is about careful scripts, which use no result of a      *)
(* function that has none: a NULL pointer then kills PID 1 in a comparison *)
(* and nowhere else.                                                       *)
(***************************************************************************)
EXTENDS Script, ScriptHeapProofs

-----------------------------------------------------------------------------
(* The invariant.                                                          *)

\* What functions still have to do, with pointers in P.
Frame(P) ==
    [f : {"resolve"}, ptr : P \cup {Null}]
        \cup [f : {"assign"}, name : Names]
        \cup [f : {"left"}, fun : {"+", "-"}, right : P]
        \cup [f : {"right"}, fun : {"+", "-"}, left : Ints]
        \cup [f : {"print"}, rest : Seq(P)]
        \cup [f : {"setname"}, value : P]
        \cup [f : {"setenv"}, name : Strings, value : P]
        \cup [f : {"modified"}, ptr : P, value : P \cup {Null}]
        \cup [f : {"cmp"}, rel : Rels, right : P]
        \cup [f : {"compare"}, rel : Rels, left : P \cup {Null}]
        \cup [f : {"text", "getenv", "sleep", "vars", "poweroff", "bool", "neg", "result",
                   "no result", "shown", "defaults"}]

\* What is on bison's stack.
Entry(P) == [ptr : P] \cup [bool : BOOLEAN]

ScriptTypes ==
    /\ input \in Seq(AllStatements)
    /\ frames \in Seq(Frame(LivePointers))
    /\ stack \in Seq(Entry(LivePointers))
    /\ env \in [Strings -> Strings]
    /\ parsing \in BOOLEAN
    /\ parsing => result \in LivePointers \cup {Null}

\* In a heap of the terms h, a number fits an int, a call has its parameters and an
\* assignment its variable.
Sound(t, h) ==
    /\ t.kind = "number" => t.number \in Ints
    /\ t.kind = "fun" =>
           /\ Known(t.fun, Len(t.params))
           /\ t.fun = "=" => h[t.params[1].at].kind = "identifier"

TermsSound ==
    /\ \A i \in 1 .. Len(heap) : Sound(heap[i], heap)
    /\ \A i \in 1 .. Len(oldHeap) : oldHeap[i].kind = "number" => oldHeap[i].number \in Ints

\* Functions that take what the one before has returned, and those that take a string.
StringReaders == {"getenv", "setname", "setenv"}
Readers ==
    {"assign", "left", "right", "text", "sleep", "result", "bool", "neg", "cmp", "compare"}
        \cup StringReaders

\* What puts a value on bison's stack is called by bison.
Pushers == {"bool", "neg", "cmp", "compare"}

\* What has no caller.
Enders == {"bool", "neg", "cmp", "compare", "result", "no result", "shown"}

\* A function that takes a string is called behind the one that makes it.
Follows(a, b) == a.f \notin Enders /\ (b.f \in StringReaders => a.f = "text")

Chain(fs) == \A i \in 1 .. Len(fs) - 1 : Follows(fs[i], fs[i + 1])

IsString(p) == p \in LivePointers /\ heap[p.at].kind = "string"

RetFits ==
    frames # <<>> =>
        /\ Head(frames).f \in Readers => ret \in LivePointers \cup {Null}
        /\ Head(frames).f \in StringReaders => IsString(ret)

\* What the running functions will put on bison's stack.
Pushed(fr) ==
    IF fr.f = "neg" THEN <<"term">> ELSE IF fr.f \in Pushers THEN <<"boolean">> ELSE <<>>

Pending(fs) == IF fs = <<>> THEN <<>> ELSE Pushed(fs[Len(fs)])

\* The scripts use no result of a function that has none.
CarefulScripts == \A st \in AllStatements : Careful(Reductions(st))

\* The reductions cs reduce the stack s to nothing, and carefully if all scripts do.
Parses(cs, s) ==
    \E stacks :
        /\ Derivation(cs, stacks) /\ stacks[1] = s
        /\ CarefulScripts => \A i \in 1 .. Len(cs) : Uses(cs[i], stacks[i])

\* What has a value, or is a call of a function that returns one.
HasResult(t) == t.kind = "fun" => t.fun \notin Resultless

\* The value v is what the symbol stands for, with pointers in P to the terms h.
Is(v, symbol, P, h) ==
    IF symbol = "boolean" THEN v \in [bool : BOOLEAN]
    ELSE /\ v \in [ptr : P]
         /\ symbol = "identifier" => h[v.ptr.at].kind = "identifier"
         /\ symbol # "call" => HasResult(h[v.ptr.at])

Are(vs, s, P, h) ==
    s \in Seq(Symbols) /\ Len(s) = Len(vs) /\ \A i \in 1 .. Len(vs) : Is(vs[i], s[i], P, h)

\* The rest of the statement is a derivation of what is on the stack and what will be.
Bison ==
    IF parsing
    THEN \E s : Are(stack, s, LivePointers, heap) /\ Parses(code, s \o Pending(frames))
    ELSE stack = <<>> /\ code = <<>> /\ Pending(frames) = <<>>

ScriptInv ==
    HeapInv /\ ScriptTypes /\ TermsSound /\ Chain(frames) /\ RetFits /\ Bison

-----------------------------------------------------------------------------
(* Numbers, texts and calls.                                               *)

LEMMA Remainder == ASSUME NEW a \in Int, NEW b \in Nat, b > 0 PROVE a % b \in 0 .. b - 1
  OBVIOUS

\* What arithmetic on an int leaves is an int.
LEMMA IntRange ==
    /\ 0 \in Ints /\ 1 \in Ints
    /\ Ints \subseteq Int
    /\ \A n \in Int : Wrap(n) \in Ints
  <1>1. MaxInt \in Nat \ {0} /\ 2 ^ IntBits = 2 * (MaxInt + 1)
    BY ScriptAssumption
  <1>2. ASSUME NEW n \in Int PROVE Wrap(n) \in Ints
    <2> DEFINE q == 2 ^ IntBits
               a == n + MaxInt + 1
    <2>1. a \in Int /\ q \in Nat /\ q > 0 /\ q = 2 * (MaxInt + 1)
      BY <1>1
    <2>2. a % q \in 0 .. q - 1
      <3> HIDE DEF a, q
      <3> QED BY <2>1, Remainder
    <2>3. Wrap(n) = (a % q) - (MaxInt + 1)
      BY DEF Wrap
    <2> HIDE DEF a, q
    <2> QED BY <1>1, <2>1, <2>2, <2>3 DEF Ints
  <1> QED BY <1>1, <1>2 DEF Ints

LEMMA NumberOf == \A t \in Term : (t.kind = "number" => t.number \in Ints) => ToNumber(t) \in Ints
  BY IntRange DEF ToNumber, Term

LEMMA TextOf ==
    \A t \in Term : (t.kind = "number" => t.number \in Ints) => Text(t) \in Strings
  BY ScriptAssumption DEF Text, Term

\* What lookup_function() accepts has a name in the table, and an assignment two parameters.
LEMMA Calls ==
    /\ \A n \in Nat : \A f : Known(f, n) => f \in Functions
    /\ \A n : Known("=", n) => n >= 2
  BY ScriptAssumption DEF Known, Arity

-----------------------------------------------------------------------------
(* Frames.                                                                 *)

\* A frame has the fields its function reads.
LEMMA FrameFields ==
    ASSUME NEW P, NEW fr \in Frame(P)
    PROVE  /\ fr.f = "resolve" => fr.ptr \in P \cup {Null}
           /\ fr.f = "assign" => fr.name \in Names
           /\ fr.f = "left" => fr.fun \in {"+", "-"} /\ fr.right \in P
           /\ fr.f = "right" => fr.fun \in {"+", "-"} /\ fr.left \in Ints
           /\ fr.f = "print" => fr.rest \in Seq(P)
           /\ fr.f = "setname" => fr.value \in P
           /\ fr.f = "setenv" => fr.name \in Strings /\ fr.value \in P
           /\ fr.f = "modified" => fr.ptr \in P /\ fr.value \in P \cup {Null}
           /\ fr.f = "cmp" => fr.rel \in Rels /\ fr.right \in P
           /\ fr.f = "compare" => fr.rel \in Rels /\ fr.left \in P \cup {Null}
  BY DEF Frame

\* The frames that the steps make are frames.
LEMMA FrameMade ==
    ASSUME NEW P, NEW p \in P, NEW q \in P \cup {Null}, NEW rel \in Rels,
           NEW n \in Names, NEW fun \in {"+", "-"}, NEW k \in Ints, NEW str \in Strings
    PROVE  /\ Resolve(q) \in Frame(P)
           /\ ToStr \in Frame(P)
           /\ [f |-> "assign", name |-> n] \in Frame(P)
           /\ [f |-> "left", fun |-> fun, right |-> p] \in Frame(P)
           /\ [f |-> "right", fun |-> fun, left |-> k] \in Frame(P)
           /\ [f |-> "setname", value |-> p] \in Frame(P)
           /\ [f |-> "setenv", name |-> str, value |-> p] \in Frame(P)
           /\ [f |-> "modified", ptr |-> p, value |-> q] \in Frame(P)
           /\ [f |-> "cmp", rel |-> rel, right |-> p] \in Frame(P)
           /\ [f |-> "compare", rel |-> rel, left |-> q] \in Frame(P)
  BY DEF Frame, Resolve, ToStr

\* What pointed into P points into a larger Q.
LEMMA FramesGrow ==
    ASSUME NEW P, NEW Q, P \subseteq Q
    PROVE  /\ Frame(P) \subseteq Frame(Q)
           /\ Entry(P) \subseteq Entry(Q)
           /\ Seq(Frame(P)) \subseteq Seq(Frame(Q))
           /\ Seq(Entry(P)) \subseteq Seq(Entry(Q))
  <1>1. Seq(P) \subseteq Seq(Q)
    BY SeqMonotonic
  <1>2. ASSUME NEW fr \in Frame(P) PROVE fr \in Frame(Q)
    <2>1. CASE fr \in [f : {"resolve"}, ptr : P \cup {Null}]
      BY <1>1, <2>1 DEF Frame
    <2>2. CASE fr \in [f : {"left"}, fun : {"+", "-"}, right : P]
      BY <1>1, <2>2 DEF Frame
    <2>3. CASE fr \in [f : {"print"}, rest : Seq(P)]
      BY <1>1, <2>3 DEF Frame
    <2>4. CASE fr \in [f : {"setname"}, value : P]
      BY <1>1, <2>4 DEF Frame
    <2>5. CASE fr \in [f : {"setenv"}, name : Strings, value : P]
      BY <1>1, <2>5 DEF Frame
    <2>6. CASE fr \in [f : {"modified"}, ptr : P, value : P \cup {Null}]
      BY <1>1, <2>6 DEF Frame
    <2>7. CASE fr \in [f : {"cmp"}, rel : Rels, right : P]
      BY <1>1, <2>7 DEF Frame
    <2>8. CASE fr \in [f : {"compare"}, rel : Rels, left : P \cup {Null}]
      BY <1>1, <2>8 DEF Frame
    <2>9. CASE \/ fr \in [f : {"assign"}, name : Names]
               \/ fr \in [f : {"right"}, fun : {"+", "-"}, left : Ints]
               \/ fr \in [f : {"text", "getenv", "sleep", "vars", "poweroff", "bool", "neg",
                              "result", "no result", "shown", "defaults"}]
      BY <2>9 DEF Frame
    <2> QED
      BY <2>1, <2>2, <2>3, <2>4, <2>5, <2>6, <2>7, <2>8, <2>9, Zenon DEF Frame
  <1>3. Entry(P) \subseteq Entry(Q)
    BY DEF Entry
  <1> HIDE DEF Frame, Entry
  <1> QED BY <1>2, <1>3, SeqMonotonic

\* A function calls others: they take its place on the stack.
LEMMA Replaced ==
    ASSUME NEW S, NEW fs \in Seq(S), fs # <<>>, Chain(fs),
           NEW new \in Seq(S), new # <<>>, Chain(new),
           NEW last, last = new[Len(new)],
           Pushed(last) = Pushed(fs[1]),
           last.f \in Enders => fs[1].f \in Enders,
           fs[1].f = "text" => last.f = "text"
    PROVE  LET all == new \o Tail(fs)
           IN all \in Seq(S) /\ all # <<>> /\ all[1] = new[1]
                  /\ Chain(all) /\ Pending(all) = Pending(fs)
  <1> DEFINE n == Len(new)
             m == Len(fs)
             all == new \o Tail(fs)
  <1>1. n \in Nat \ {0} /\ m \in Nat \ {0}
    BY EmptySeq
  <1>2. Tail(fs) \in Seq(S) /\ Len(Tail(fs)) = m - 1 /\ \A i \in 1 .. m - 1 : Tail(fs)[i] = fs[i + 1]
    BY HeadTailProperties
  <1>3. /\ all \in Seq(S) /\ Len(all) = n + m - 1
        /\ \A i \in 1 .. n + m - 1 : all[i] = IF i <= n THEN new[i] ELSE Tail(fs)[i - n]
    <2>1. n + (m - 1) = n + m - 1
      BY <1>1
    <2> QED BY <1>2, <2>1, ConcatProperties
  <1> HIDE DEF all
  <1>4. \A i \in 1 .. n : all[i] = new[i]
    BY <1>1, <1>3
  <1>5. \A i \in n + 1 .. n + m - 1 : all[i] = fs[i - n + 1]
    <2> SUFFICES ASSUME NEW i \in n + 1 .. n + m - 1 PROVE all[i] = fs[i - n + 1]
      OBVIOUS
    <2>1. i \in 1 .. n + m - 1 /\ ~(i <= n) /\ i - n \in 1 .. m - 1
      BY <1>1
    <2> QED BY <1>2, <1>3, <2>1
  <1>6. Chain(all)
    <2> SUFFICES ASSUME NEW i \in 1 .. n + m - 2 PROVE Follows(all[i], all[i + 1])
      BY <1>1, <1>3 DEF Chain
    <2>1. CASE i < n
      <3>1. i \in 1 .. n - 1 /\ i \in 1 .. n /\ i + 1 \in 1 .. n
        BY <1>1, <2>1
      <3> QED BY <1>4, <3>1 DEF Chain
    <2>2. CASE i = n
      <3>1. i \in 1 .. n /\ i + 1 \in n + 1 .. n + m - 1 /\ (i + 1) - n + 1 = 2 /\ 1 \in 1 .. m - 1
        BY <1>1, <2>2
      <3>2. all[i] = last /\ all[i + 1] = fs[2]
        BY <1>4, <1>5, <2>2, <3>1
      <3>3. Follows(fs[1], fs[1 + 1])
        BY <3>1 DEF Chain
      <3> QED BY <3>2, <3>3 DEF Follows
    <2>3. CASE i > n
      <3>1. /\ i \in n + 1 .. n + m - 1 /\ i + 1 \in n + 1 .. n + m - 1
            /\ i - n + 1 \in 1 .. m - 1 /\ (i + 1) - n + 1 = (i - n + 1) + 1
        BY <1>1, <2>3
      <3>2. all[i] = fs[i - n + 1] /\ all[i + 1] = fs[(i - n + 1) + 1]
        BY <1>5, <3>1
      <3>3. Follows(fs[i - n + 1], fs[(i - n + 1) + 1])
        BY <3>1 DEF Chain
      <3> QED BY <3>2, <3>3
    <2> QED BY <1>1, <2>1, <2>2, <2>3
  <1>7. Pending(all) = Pending(fs)
    <2>1. all # <<>>
      BY <1>1, <1>3
    <2>2. CASE m = 1
      <3>1. n + m - 1 = n /\ n \in 1 .. n
        BY <1>1, <2>2
      <3>2. all[Len(all)] = last
        BY <1>3, <1>4, <3>1
      <3> QED BY <2>1, <2>2, <3>2 DEF Pending
    <2>3. CASE m > 1
      <3>1. n + m - 1 \in n + 1 .. n + m - 1 /\ (n + m - 1) - n + 1 = m
        BY <1>1, <2>3
      <3>2. all[Len(all)] = fs[m]
        BY <1>3, <1>5, <3>1
      <3> QED BY <2>1, <3>2 DEF Pending
    <2>4. m = 1 \/ m > 1
      <3> HIDE DEF m
      <3> QED BY <1>1
    <2> QED BY <2>2, <2>3, <2>4
  <1>8. all # <<>> /\ all[1] = new[1]
    BY <1>1, <1>3, <1>4
  <1> QED BY <1>3, <1>6, <1>7, <1>8 DEF all

\* A function returns.
LEMMA Dropped ==
    ASSUME NEW S, NEW fs \in Seq(S), fs # <<>>, Chain(fs)
    PROVE  /\ Tail(fs) \in Seq(S) /\ <<>> \o Tail(fs) = Tail(fs)
           /\ Chain(Tail(fs))
           /\ fs[1].f \notin Pushers => Pending(Tail(fs)) = Pending(fs)
           /\ fs[1].f \in Enders => Tail(fs) = <<>> /\ Pending(fs) = Pushed(fs[1])
           /\ Tail(fs) # <<>> => (Tail(fs)[1].f \in StringReaders => fs[1].f = "text")
  <1> DEFINE m == Len(fs)
             t == Tail(fs)
  <1>1. m \in Nat \ {0}
    BY EmptySeq
  <1>2. t \in Seq(S) /\ Len(t) = m - 1 /\ \A i \in 1 .. m - 1 : t[i] = fs[i + 1]
    BY HeadTailProperties
  <1>3. <<>> \o t = t
    BY <1>2, ConcatEmptySeq
  <1> HIDE DEF t
  <1>4. Chain(t)
    <2> SUFFICES ASSUME NEW i \in 1 .. m - 2 PROVE Follows(t[i], t[i + 1])
      BY <1>1, <1>2 DEF Chain
    <2>1. i \in 1 .. m - 1 /\ i + 1 \in 1 .. m - 1
      BY <1>1
    <2>2. Follows(fs[i + 1], fs[(i + 1) + 1])
      BY <2>1 DEF Chain
    <2> QED BY <1>2, <2>1, <2>2
  <1>5. CASE m = 1
    <2>1. t = <<>>
      BY <1>2, <1>5, EmptySeq
    <2> QED BY <1>2, <1>3, <1>4, <1>5, <2>1 DEF Pending, Pushed, t, Enders, Pushers
  <1>6. CASE m > 1
    <2>1. 1 \in 1 .. m - 1 /\ m - 1 \in 1 .. m - 1 /\ (m - 1) + 1 = m /\ 1 + 1 = 2
      BY <1>1, <1>6
    <2>2. t # <<>> /\ t[1] = fs[2] /\ t[Len(t)] = fs[m] /\ Follows(fs[1], fs[2])
      BY <1>2, <2>1 DEF Chain
    <2>3. Pending(t) = Pending(fs)
      BY <2>2 DEF Pending
    <2> QED BY <1>2, <1>3, <1>4, <2>2, <2>3 DEF Follows, t
  <1>7. m = 1 \/ m > 1
    <2> HIDE DEF m
    <2> QED BY <1>1
  <1> QED BY <1>5, <1>6, <1>7 DEF t

-----------------------------------------------------------------------------
(* The grammar.                                                            *)

LEMMA TakesSome == ASSUME NEW c \in Reduction PROVE Taken(c) \in Nat
  <1>1. CASE c \in [r : {"fun"}, fun : STRING, n : Nat] \cup [r : {"rule"}, n : Nat]
    BY <1>1 DEF Taken
  <1>2. CASE c \notin [r : {"fun"}, fun : STRING, n : Nat] \cup [r : {"rule"}, n : Nat]
    BY <1>2 DEF Taken, Reduction
  <1> QED BY <1>1, <1>2

\* The first reduction of a derivation fits the stack, and the rest derives what it leaves.
LEMMA ParsesNext ==
    ASSUME NEW cs, NEW s, cs # <<>>, Parses(cs, s)
    PROVE  /\ Head(cs) \in Reduction /\ Tail(cs) \in Seq(Reduction)
           /\ s \in Seq(Symbols)
           /\ Fits(Head(cs), s) /\ Parses(Tail(cs), Reduced(Head(cs), s))
           /\ CarefulScripts => Uses(Head(cs), s)
  <1>1. PICK stacks :
            /\ Derivation(cs, stacks) /\ stacks[1] = s
            /\ CarefulScripts => \A i \in 1 .. Len(cs) : Uses(cs[i], stacks[i])
    BY DEF Parses
  <1> DEFINE n == Len(cs)
             t == Tail(cs)
             rest == [i \in 1 .. n |-> stacks[i + 1]]
  <1>2. cs \in Seq(Reduction) /\ n \in Nat \ {0} /\ Head(cs) = cs[1] /\ Head(cs) \in Reduction
    BY <1>1, EmptySeq DEF Derivation
  <1>3. /\ t \in Seq(Reduction) /\ Len(t) = n - 1 /\ Len(t) + 1 = n
        /\ \A i \in 1 .. n - 1 : t[i] = cs[i + 1]
    BY <1>2, HeadTailProperties
  <1> HIDE DEF t
  <1>4. /\ stacks \in [1 .. n + 1 -> Seq(Symbols)]
        /\ \A i \in 1 .. n : Fits(cs[i], stacks[i]) /\ stacks[i + 1] = Reduced(cs[i], stacks[i])
        /\ stacks[n + 1] = <<>>
    BY <1>1 DEF Derivation
  <1> HIDE DEF n
  <1>5. 1 \in 1 .. n /\ 1 \in 1 .. n + 1 /\ n \in 1 .. n /\ \A i \in 1 .. n : i + 1 \in 1 .. n + 1
    BY <1>2
  <1>6. s \in Seq(Symbols) /\ Fits(Head(cs), s) /\ rest[1] = Reduced(Head(cs), s)
    BY <1>1, <1>2, <1>4, <1>5
  <1>7. Derivation(t, rest)
    <2>1. rest \in [1 .. Len(t) + 1 -> Seq(Symbols)]
      BY <1>3, <1>4, <1>5
    <2>2. rest[Len(t) + 1] = <<>>
      BY <1>3, <1>4, <1>5
    <2>3. ASSUME NEW i \in 1 .. Len(t)
          PROVE  Fits(t[i], rest[i]) /\ rest[i + 1] = Reduced(t[i], rest[i])
      <3>1. i \in 1 .. n - 1 /\ i \in 1 .. n /\ i + 1 \in 1 .. n
        BY <1>2, <1>3
      <3> QED BY <1>3, <1>4, <3>1
    <2> QED BY <1>3, <2>1, <2>2, <2>3 DEF Derivation
  <1>8. ASSUME CarefulScripts
        PROVE  Uses(Head(cs), s) /\ \A i \in 1 .. Len(t) : Uses(t[i], rest[i])
    <2>1. \A i \in 1 .. n : Uses(cs[i], stacks[i])
      BY <1>1, <1>8 DEF n
    <2>2. \A i \in 1 .. Len(t) : i \in 1 .. n - 1 /\ i \in 1 .. n /\ i + 1 \in 1 .. n
      BY <1>2, <1>3
    <2> QED BY <1>1, <1>2, <1>3, <1>5, <2>1, <2>2
  <1> HIDE DEF rest
  <1> QED BY <1>2, <1>3, <1>6, <1>7, <1>8 DEF Parses, t

\* At the end of a statement bison's stack is empty.
LEMMA ParsesNothing == ASSUME NEW s, Parses(<<>>, s) PROVE s = <<>>
  BY DEF Parses, Derivation

\* A statement begins on an empty stack.
LEMMA ParsesStatement ==
    ASSUME NEW s \in AllStatements
    PROVE  Parses(Reductions(s), <<>>)
  <1> DEFINE cs == Reductions(s)
  <1>1. Stacks(cs)[1] = <<>> /\ Derivation(cs, Stacks(cs))
    BY ScriptAssumption DEF Grammatical
  <1>2. CarefulScripts => \A i \in 1 .. Len(cs) : Uses(cs[i], Stacks(cs)[i])
    BY DEF CarefulScripts, Careful
  <1> HIDE DEF cs
  <1>3. Parses(cs, <<>>)
    BY <1>1, <1>2, Zenon DEF Parses
  <1> QED BY <1>3 DEF cs

-----------------------------------------------------------------------------
(* Bison's stack.                                                          *)

\* The n topmost values are what their symbols say, and so is the stack below them.
LEMMA Unstacked ==
    ASSUME NEW P, NEW h, NEW vs \in Seq(Entry(P)), NEW s, Are(vs, s, P, h),
           NEW n \in Nat, n <= Len(s)
    PROVE  LET below == SubSeq(vs, 1, Len(vs) - n)
           IN /\ below \in Seq(Entry(P))
              /\ Are(below, SubSeq(s, 1, Len(s) - n), P, h)
              /\ \A i \in 1 .. n :
                     Is(vs[Len(vs) - n + i], s[Len(s) - n + i], P, h)
  <1> DEFINE m == Len(vs)
             below == SubSeq(vs, 1, m - n)
             sub == SubSeq(s, 1, m - n)
  <1>1. m \in Nat /\ s \in Seq(Symbols) /\ Len(s) = m /\ \A i \in 1 .. m : Is(vs[i], s[i], P, h)
    BY DEF Are
  <1>2. \A i \in 1 .. m : vs[i] \in Entry(P) /\ s[i] \in Symbols
    BY <1>1, ElementOfSeq
  <1> HIDE DEF m
  <1>3. m - n \in Nat /\ m - n <= m /\ Len(s) - n = m - n
    BY <1>1
  <1>4. \A i \in 1 .. m - n : i \in 1 .. m
    BY <1>1, <1>3
  <1>5. /\ below \in Seq(Entry(P)) /\ sub \in Seq(Symbols)
        /\ Len(below) = m - n /\ Len(sub) = m - n
        /\ \A i \in 1 .. m - n : below[i] = vs[i] /\ sub[i] = s[i]
    <2>1. 1 \in Int /\ m - n \in Int /\ (m - n) - 1 + 1 = m - n
      BY <1>3
    <2>2. \A i \in 1 .. m - n : vs[i] \in Entry(P)
      BY <1>2, <1>4
    <2>3. \A i \in 1 .. m - n : s[i] \in Symbols
      BY <1>2, <1>4
    <2>4. /\ below \in Seq(Entry(P)) /\ Len(below) = IF 1 <= m - n THEN m - n ELSE 0
          /\ \A i \in 1 .. m - n : below[i] = vs[1 + i - 1]
      BY <2>1, <2>2, SubSeqProperties
    <2>5. /\ sub \in Seq(Symbols) /\ Len(sub) = IF 1 <= m - n THEN m - n ELSE 0
          /\ \A i \in 1 .. m - n : sub[i] = s[1 + i - 1]
      BY <2>1, <2>3, SubSeqProperties
    <2>6. (IF 1 <= m - n THEN m - n ELSE 0) = m - n /\ \A i \in 1 .. m - n : 1 + i - 1 = i
      BY <1>3
    <2> QED BY <2>4, <2>5, <2>6
  <1>6. Are(below, sub, P, h)
    BY <1>1, <1>4, <1>5 DEF Are
  <1>7. \A i \in 1 .. n : m - n + i \in 1 .. m
    BY <1>1, <1>3
  <1> QED BY <1>1, <1>3, <1>5, <1>6, <1>7 DEF m

\* A value that is what its symbol says may be put on the stack.
LEMMA Stacked ==
    ASSUME NEW P, NEW h, NEW vs \in Seq(Entry(P)), NEW s, Are(vs, s, P, h),
           NEW v, NEW symbol \in Symbols, Is(v, symbol, P, h)
    PROVE  Append(vs, v) \in Seq(Entry(P)) /\ Are(Append(vs, v), s \o <<symbol>>, P, h)
  <1> DEFINE m == Len(vs)
             t == s \o <<symbol>>
             ws == Append(vs, v)
  <1>1. m \in Nat /\ s \in Seq(Symbols) /\ Len(s) = m /\ \A i \in 1 .. m : Is(vs[i], s[i], P, h)
    BY DEF Are
  <1>2. v \in Entry(P)
    BY DEF Is, Entry
  <1>3. /\ ws \in Seq(Entry(P)) /\ Len(ws) = m + 1 /\ ws[m + 1] = v
        /\ \A i \in 1 .. m : ws[i] = vs[i]
    BY <1>2, AppendProperties
  <1>4. <<symbol>> \in Seq(Symbols) /\ Len(<<symbol>>) = 1 /\ <<symbol>>[1] = symbol
    OBVIOUS
  <1>5. /\ t \in Seq(Symbols) /\ Len(t) = m + 1 /\ t[m + 1] = symbol
        /\ \A i \in 1 .. m : t[i] = s[i]
    <2> HIDE DEF m
    <2>1. /\ t \in Seq(Symbols) /\ Len(t) = m + 1
          /\ \A i \in 1 .. m + 1 : t[i] = IF i <= m THEN s[i] ELSE <<symbol>>[i - m]
      BY <1>1, <1>4, ConcatProperties
    <2>2. m + 1 \in 1 .. m + 1 /\ ~(m + 1 <= m) /\ (m + 1) - m = 1
      BY <1>1
    <2>3. \A i \in 1 .. m : i \in 1 .. m + 1 /\ i <= m
      BY <1>1
    <2> QED BY <1>4, <2>1, <2>2, <2>3
  <1> HIDE DEF m, t, ws
  <1>6. \A i \in 1 .. m + 1 : i \in 1 .. m \/ i = m + 1
    BY <1>1
  <1> QED BY <1>1, <1>3, <1>5, <1>6 DEF Are, t, ws

\* The stack keeps its meaning when the heap grows.
LEMMA StackGrows ==
    ASSUME NEW P, NEW h, NEW Q, NEW k, P \subseteq Q, \A p \in P : k[p.at] = h[p.at],
           NEW vs, NEW s, Are(vs, s, P, h)
    PROVE  Are(vs, s, Q, k)
  <1>1. \A v, symbol : Is(v, symbol, P, h) => Is(v, symbol, Q, k)
    BY DEF Is
  <1> QED BY <1>1 DEF Are

-----------------------------------------------------------------------------
(* What a step does to the heap.                                           *)

\* Between two collections a heap only grows.
Grows ==
    /\ LivePointers \subseteq LivePointers'
    /\ \A p \in LivePointers : heap'[p.at] = heap[p.at]

\* A pointer into the heap in use leads to a term.
LEMMA LiveIs ==
    ASSUME HeapTypeOK
    PROVE  /\ \A p : p \in LivePointers <=> Live(p)
           /\ \A p \in LivePointers :
                  p # Null /\ p.at \in 1 .. Len(heap) /\ Deref(p) = heap[p.at] /\ Deref(p) \in Term
  <1>1. gen \in Nat /\ Len(heap) \in Nat /\ heap \in Seq(Term)
    BY DEF HeapTypeOK
  <1>2. \A p : p \in LivePointers <=> Live(p)
    BY <1>1 DEF LivePointers, Live, Pointer
  <1>3. \A p \in LivePointers : p.at \in 1 .. Len(heap) /\ p.gen = gen
    BY DEF LivePointers
  <1>4. \A i \in 1 .. Len(heap) : heap[i] \in Term
    BY <1>1
  <1> QED BY <1>2, <1>3, <1>4, HeapAssumption DEF Deref, Live

\* A term of the heap: what it refers to is there, and what it says makes sense.
LEMMA DerefIs ==
    ASSUME HeapInv, TermsSound, NEW p \in LivePointers, NEW t, t = Deref(p)
    PROVE  /\ t \in Term /\ Sound(t, heap)
           /\ t.kind = "identifier" => t.name \in Names
           /\ t.kind = "string" => t.string \in Strings
           /\ ToNumber(t) \in Ints /\ Text(t) \in Strings
           /\ t.kind = "fun" => t.params \in Seq(LivePointers)
  <1>1. p.at \in 1 .. Len(heap) /\ t = heap[p.at] /\ t \in Term
    BY LiveIs DEF HeapInv
  <1>2. Sound(t, heap)
    BY <1>1 DEF TermsSound
  <1>3. ToNumber(t) \in Ints /\ Text(t) \in Strings
    BY <1>1, <1>2, NumberOf, TextOf DEF Sound
  <1>4. t.kind = "fun" => t.params \in Seq(LivePointers)
    <2> SUFFICES ASSUME t.kind = "fun" PROVE t.params \in Seq(LivePointers)
      OBVIOUS
    <2>1. t.params \in Seq(Pointer)
      BY <1>1 DEF Term
    <2>2. \A i \in 1 .. Len(t.params) : t.params[i] \in LivePointers
      <3>1. \A i \in DOMAIN t.params : Live(t.params[i])
        BY <1>1 DEF HeapInv, NoDangling, WellFormed
      <3> QED BY <2>1, <3>1, LiveIs DEF HeapInv
    <2> QED BY <2>1, <2>2, SMT
  <1> QED BY <1>1, <1>2, <1>3, <1>4 DEF Term

\* The calls that are there stay calls with their parameters when a term t is added.
LEMMA SoundAdded ==
    ASSUME HeapInv, TermsSound, NEW t, heap' = Append(heap, t), t \in Term, Sound(t, heap')
    PROVE  \A i \in 1 .. Len(heap') : Sound(heap'[i], heap')
  <1>1. heap \in Seq(Term) /\ Len(heap) \in Nat
    BY DEF HeapInv, HeapTypeOK
  <1>2. /\ Len(heap') = Len(heap) + 1 /\ heap'[Len(heap) + 1] = t
        /\ \A i \in 1 .. Len(heap) : heap'[i] = heap[i]
    BY <1>1
  <1>3. \A i \in 1 .. Len(heap) : Sound(heap'[i], heap')
    <2> SUFFICES ASSUME NEW i \in 1 .. Len(heap), NEW u, u = heap[i],
                        u.kind = "fun", u.fun = "="
                 PROVE  heap'[u.params[1].at].kind = "identifier"
      BY <1>2 DEF Sound, TermsSound
    <2>1. u \in Term /\ WellFormed(u) /\ Sound(u, heap)
      BY <1>1 DEF HeapInv, NoDangling, TermsSound
    <2>2. u.params \in Seq(Pointer) /\ Len(u.params) >= 2
      BY <2>1, Calls DEF Sound, Term
    <2>3. Live(u.params[1])
      BY <2>1, <2>2 DEF WellFormed
    <2>4. u.params[1].at \in 1 .. Len(heap)
      BY <1>1, <2>3 DEF Live, Pointer
    <2> QED BY <1>2, <2>1, <2>4 DEF Sound
  <1>4. \A i \in 1 .. Len(heap') : i \in 1 .. Len(heap) \/ i = Len(heap) + 1
    BY <1>1, <1>2
  <1> QED BY <1>2, <1>3, <1>4

\* A new term is a step of ScriptHeap that leaves the other terms where they are.
LEMMA NewTermKeeps ==
    ASSUME HeapInv, TermsSound, NEW t, WellFormed(t), Sound(t, heap), NewTerm(t)
    PROVE  /\ HeapInv' /\ TermsSound' /\ Grows /\ HeapNext
           /\ NextPointer \in LivePointers'
           /\ heap'[NextPointer.at] = t
  <1>1. HeapInv'
    BY NewTermStep
  <1>2. /\ heap \in Seq(Term) /\ Len(heap) \in Nat /\ gen \in Nat /\ t \in Term
        /\ oldHeap' = oldHeap /\ gen' = gen
    BY DEF HeapInv, HeapTypeOK, WellFormed, NewTerm
  <1>3. /\ heap' \in Seq(Term) /\ Len(heap') = Len(heap) + 1
        /\ heap'[Len(heap) + 1] = t
        /\ \A i \in 1 .. Len(heap) : heap'[i] = heap[i]
    BY <1>2 DEF NewTerm
  <1>4. Grows
    BY <1>2, <1>3 DEF Grows, LivePointers
  <1>5. NextPointer \in LivePointers' /\ heap'[NextPointer.at] = t
    BY <1>2, <1>3 DEF NextPointer, LivePointers
  <1>6. HeapNext
    <2>1. Len(heap) + 1 \in DOMAIN heap'
      BY <1>2, <1>3
    <2> QED BY <1>3, <2>1, Zenon DEF HeapNext
  <1>7. TermsSound'
    <2>1. Sound(t, heap')
      <3> SUFFICES ASSUME t.kind = "fun", t.fun = "="
                   PROVE  heap'[t.params[1].at].kind = "identifier"
        BY DEF Sound
      <3>1. t.params \in Seq(Pointer) /\ Len(t.params) >= 2
        BY <1>2, Calls DEF Sound, Term
      <3>2. Live(t.params[1])
        BY <3>1 DEF WellFormed
      <3>3. t.params[1].at \in 1 .. Len(heap)
        BY <1>2, <3>2 DEF Live, Pointer
      <3> QED BY <1>3, <3>3 DEF Sound
    <2>2. \A i \in 1 .. Len(heap') : Sound(heap'[i], heap')
      BY <1>2, <2>1, SoundAdded DEF NewTerm
    <2> QED BY <1>2, <2>2 DEF TermsSound
  <1> QED BY <1>1, <1>4, <1>5, <1>6, <1>7

\* So is an assignment, which leaves all terms where they are.
LEMMA SetVariableKeeps ==
    ASSUME HeapInv, TermsSound, NEW n \in Names, NEW p \in LivePointers \cup {Null},
           SetVariable(n, p)
    PROVE  HeapInv' /\ TermsSound' /\ Grows /\ HeapNext
  <1>1. HeapInv'
    BY SetVariableStep
  <1>2. UNCHANGED <<gen, heap, oldHeap>>
    BY DEF SetVariable
  <1>3. HeapNext
    BY Zenon DEF HeapNext
  <1> QED BY <1>1, <1>2, <1>3 DEF TermsSound, Grows, LivePointers

\* A step that ends PID 1, or none.
LEMMA SameHeap ==
    ASSUME HeapInv, TermsSound,
           UNCHANGED <<gen, heap, used, variables, collecting, oldHeap, oldVariables>>,
           halted' \in {"no", "out_of_heap", "null", "stack", "off"}
    PROVE  HeapInv' /\ TermsSound' /\ Grows
  <1>1. HeapInv'
    BY DEF HeapInv, HeapTypeOK, NamedOnce, NoDangling, Live, WellFormed
  <1> QED BY <1>1 DEF TermsSound, Grows, LivePointers

-----------------------------------------------------------------------------
(* What a step does to the frames.                                         *)

\* The heap grows, and the parser waits.
Waits ==
    /\ HeapInv' /\ TermsSound' /\ Grows
    /\ UNCHANGED <<input, code, stack, parsing>>
    /\ env' \in [Strings -> Strings]
    /\ result' = result \/ result' \in LivePointers \cup {Null}

\* The function that runs is on top of the stack.
LEMMA TopFrame ==
    ASSUME ScriptTypes, frames # <<>>
    PROVE  Head(frames) = frames[1] /\ Head(frames) \in Frame(LivePointers)
  BY HeadTailProperties DEF ScriptTypes

\* While functions run, bison waits: what it has on its stack stays what it was.
LEMMA WaitingTypes ==
    ASSUME ScriptTypes, Waits, frames' \in Seq(Frame(LivePointers'))
    PROVE  ScriptTypes'
  <1>1. Seq(Entry(LivePointers)) \subseteq Seq(Entry(LivePointers'))
    BY FramesGrow DEF Waits, Grows
  <1> QED BY <1>1 DEF ScriptTypes, Waits, Grows

LEMMA WaitingBison ==
    ASSUME Bison, Waits, Pending(frames') = Pending(frames)
    PROVE  Bison'
  <1>1. CASE parsing
    <2>1. PICK s : Are(stack, s, LivePointers, heap) /\ Parses(code, s \o Pending(frames))
      BY <1>1 DEF Bison
    <2>2. Are(stack, s, LivePointers', heap')
      BY <2>1, StackGrows DEF Waits, Grows
    <2>3. parsing' /\ stack' = stack /\ code' = code
      BY <1>1 DEF Waits
    <2> QED BY <2>1, <2>2, <2>3 DEF Bison
  <1>2. CASE ~parsing
    BY <1>2 DEF Bison, Waits
  <1> QED BY <1>1, <1>2

\* A function calls others before it goes on, or in its place.
LEMMA CallsKeep ==
    ASSUME ScriptInv, Waits, frames # <<>>,
           NEW new \in Seq(Frame(LivePointers')), new # <<>>, Chain(new),
           new[1].f \notin Readers,
           NEW last, last = new[Len(new)],
           Pushed(last) = Pushed(Head(frames)),
           last.f \in Enders => Head(frames).f \in Enders,
           Head(frames).f = "text" => last.f = "text",
           frames' = new \o Tail(frames)
    PROVE  ScriptInv'
  <1>1. Head(frames) = frames[1]
    BY TopFrame DEF ScriptInv
  <1>2. frames \in Seq(Frame(LivePointers'))
    BY FramesGrow DEF ScriptInv, ScriptTypes, Waits, Grows
  <1>3. /\ frames' \in Seq(Frame(LivePointers')) /\ frames' # <<>> /\ frames'[1] = new[1]
        /\ Chain(frames') /\ Pending(frames') = Pending(frames)
    BY <1>1, <1>2, Replaced DEF ScriptInv
  <1>4. RetFits'
    <2>1. Head(frames') = new[1]
      BY <1>3, HeadTailProperties
    <2> QED BY <2>1 DEF RetFits, Readers
  <1> QED BY <1>3, <1>4, WaitingTypes, WaitingBison DEF ScriptInv, Waits

\* A function returns a term, or nothing.
LEMMA ReturnKeeps ==
    ASSUME ScriptInv, Waits, frames # <<>>,
           Head(frames).f \notin Pushers,
           frames' = Tail(frames),
           ret' \in LivePointers' \cup {Null},
           Head(frames).f = "text" => IsString(ret)'
    PROVE  ScriptInv'
  <1>1. Head(frames) = frames[1]
    BY TopFrame DEF ScriptInv
  <1>2. frames \in Seq(Frame(LivePointers'))
    BY FramesGrow DEF ScriptInv, ScriptTypes, Waits, Grows
  <1>3. /\ frames' \in Seq(Frame(LivePointers'))
        /\ Chain(frames') /\ Pending(frames') = Pending(frames)
        /\ frames' # <<>> => (frames'[1].f \in StringReaders => frames[1].f = "text")
    BY <1>1, <1>2, Dropped DEF ScriptInv
  <1>4. RetFits'
    <2> SUFFICES ASSUME frames' # <<>>
                 PROVE  Head(frames').f \in StringReaders => IsString(ret)'
      BY DEF RetFits
    <2>1. Head(frames') = frames'[1]
      BY <1>3, HeadTailProperties
    <2> QED BY <1>1, <1>3, <2>1
  <1> QED BY <1>3, <1>4, WaitingTypes, WaitingBison DEF ScriptInv, Waits

\* A condition or a negation is complete.
LEMMA PushKeeps ==
    ASSUME ScriptInv, HeapInv', TermsSound', Grows, frames # <<>>,
           Head(frames).f \in Pushers,
           NEW symbol \in Symbols, Pushed(Head(frames)) = <<symbol>>,
           NEW v, Is(v, symbol, LivePointers', heap'),
           frames' = Tail(frames), stack' = Append(stack, v),
           UNCHANGED <<input, code, env, result, parsing>>
    PROVE  ScriptInv'
  <1>1. Head(frames) = frames[1]
    BY TopFrame DEF ScriptInv
  <1>2. frames \in Seq(Frame(LivePointers')) /\ stack \in Seq(Entry(LivePointers'))
    BY FramesGrow DEF ScriptInv, ScriptTypes, Grows
  <1>3. frames' = <<>> /\ Pending(frames) = <<symbol>>
    BY <1>1, <1>2, Dropped DEF ScriptInv, Enders, Pushers
  <1>4. parsing
    BY <1>3 DEF ScriptInv, Bison
  <1>5. PICK s : Are(stack, s, LivePointers, heap) /\ Parses(code, s \o <<symbol>>)
    BY <1>3, <1>4 DEF ScriptInv, Bison
  <1>6. Are(stack, s, LivePointers', heap')
    BY <1>5, StackGrows DEF Grows
  <1>7. /\ stack' \in Seq(Entry(LivePointers'))
        /\ Are(stack', s \o <<symbol>>, LivePointers', heap')
    BY <1>2, <1>6, Stacked
  <1>8. Bison'
    <2>1. (s \o <<symbol>>) \o <<>> = s \o <<symbol>>
      BY <1>7, ConcatEmptySeq DEF Are
    <2> HIDE DEF Are, Parses
    <2>2. Pending(frames') = <<>> /\ parsing' /\ code' = code
      BY <1>3, <1>4 DEF Pending
    <2>3. Parses(code', (s \o <<symbol>>) \o Pending(frames'))
      BY <1>5, <2>1, <2>2
    <2> QED BY <1>7, <2>2, <2>3 DEF Bison
  <1>9. ScriptTypes'
    <2>1. frames' \in Seq(Frame(LivePointers'))
      BY <1>3, EmptySeq
    <2> QED BY <1>7, <2>1 DEF ScriptInv, ScriptTypes, Grows
  <1> QED BY <1>3, <1>8, <1>9 DEF ScriptInv, Chain, RetFits

-----------------------------------------------------------------------------
(* The reductions.                                                         *)

\* What bison's stack holds for a reduction c, the next of the statement.
Ready(c, s) ==
    /\ c \in Reduction /\ Fits(c, s) /\ Taken(c) \in Nat
    /\ CarefulScripts => Uses(c, s)
    /\ s \in Seq(Symbols) /\ Len(s) = Len(stack) /\ Len(stack) \in Nat
    /\ Below(Taken(c)) \in Seq(Entry(LivePointers))
    /\ Are(Below(Taken(c)), SubSeq(s, 1, Len(s) - Taken(c)), LivePointers, heap)
    /\ \A i \in 1 .. Taken(c) :
           Is(Top(Taken(c), i), s[Len(s) - Taken(c) + i], LivePointers, heap)
    /\ Tail(code) \in Seq(Reduction)
    /\ Parses(Tail(code), SubSeq(s, 1, Len(s) - Taken(c)) \o Left(c))

\* A reduction that comes next fits the stack.
LEMMA ReducingIsReady ==
    ASSUME ScriptInv, NEW rs, Reducing(rs)
    PROVE  /\ parsing /\ frames = <<>> /\ halted = "no" /\ ~collecting /\ Head(code).r \in rs
           /\ \E s : Ready(Head(code), s)
  <1> DEFINE c == Head(code)
             n == Taken(c)
  <1>1. /\ parsing /\ frames = <<>> /\ halted = "no" /\ ~collecting /\ Head(code).r \in rs
        /\ code # <<>>
    BY DEF Reducing
  <1>2. PICK s : Are(stack, s, LivePointers, heap) /\ Parses(code, s \o <<>>)
    BY <1>1, Zenon DEF ScriptInv, Bison, Pending
  <1>3. /\ s \in Seq(Symbols) /\ s \o <<>> = s /\ Len(s) = Len(stack)
        /\ stack \in Seq(Entry(LivePointers)) /\ Len(stack) \in Nat
    BY <1>2, ConcatEmptySeq, LenProperties DEF Are, ScriptInv, ScriptTypes
  <1>4. /\ c \in Reduction /\ Tail(code) \in Seq(Reduction)
        /\ Fits(c, s) /\ Parses(Tail(code), Reduced(c, s))
        /\ CarefulScripts => Uses(c, s)
    BY <1>1, <1>2, <1>3, ParsesNext
  <1>5. n \in Nat /\ n <= Len(s)
    BY <1>4, TakesSome DEF Fits
  <1>6. /\ Below(n) \in Seq(Entry(LivePointers))
        /\ Are(Below(n), SubSeq(s, 1, Len(s) - n), LivePointers, heap)
        /\ \A i \in 1 .. n : Is(Top(n, i), s[Len(s) - n + i], LivePointers, heap)
    <2> HIDE DEF n, c
    <2> QED BY <1>2, <1>3, <1>5, Unstacked, Zenon DEF Below, Top
  <1> HIDE DEF c
  <1>7. Ready(c, s)
    BY <1>3, <1>4, <1>5, <1>6 DEF Ready, Reduced
  <1> QED BY <1>1, <1>7 DEF c

\* A reduction that leaves a value on the stack.
LEMMA BuildKeeps ==
    ASSUME ScriptInv, HeapInv', TermsSound', Grows, parsing,
           NEW c, NEW s, Ready(c, s),
           NEW symbol \in Symbols, Left(c) = <<symbol>>,
           NEW v, Is(v, symbol, LivePointers', heap'),
           stack' = Append(Below(Taken(c)), v), code' = Tail(code), frames = <<>>,
           UNCHANGED <<input, frames, env, result, parsing>>
    PROVE  ScriptInv'
  <1> DEFINE below == Below(Taken(c))
             sub == SubSeq(s, 1, Len(s) - Taken(c))
  <1>1. /\ below \in Seq(Entry(LivePointers')) /\ Are(below, sub, LivePointers, heap)
        /\ Parses(Tail(code), sub \o <<symbol>>)
    BY FramesGrow DEF Ready, Grows
  <1>2. Are(below, sub, LivePointers', heap')
    <2> HIDE DEF below, sub
    <2> QED BY <1>1, StackGrows DEF Grows
  <1>3. /\ stack' \in Seq(Entry(LivePointers'))
        /\ Are(stack', sub \o <<symbol>>, LivePointers', heap')
    <2> HIDE DEF sub
    <2>1. /\ Append(below, v) \in Seq(Entry(LivePointers'))
          /\ Are(Append(below, v), sub \o <<symbol>>, LivePointers', heap')
      <3> HIDE DEF below
      <3> QED BY <1>1, <1>2, Stacked
    <2> QED BY <2>1
  <1> HIDE DEF sub, below
  <1>4. Bison'
    <2>1. (sub \o <<symbol>>) \o <<>> = sub \o <<symbol>>
      BY <1>3, ConcatEmptySeq DEF Are
    <2> HIDE DEF Are, Parses
    <2>2. Pending(frames') = <<>> /\ parsing' /\ code' = Tail(code)
      BY DEF Pending
    <2>3. Parses(code', (sub \o <<symbol>>) \o Pending(frames'))
      BY <1>1, <2>1, <2>2
    <2> QED BY <1>3, <2>2, <2>3 DEF Bison
  <1>5. ScriptTypes'
    <2>1. frames' \in Seq(Frame(LivePointers'))
      BY EmptySeq
    <2> QED BY <1>3, <2>1 DEF ScriptInv, ScriptTypes, Grows
  <1> QED BY <1>4, <1>5 DEF ScriptInv, Chain, RetFits

\* A reduction that runs something.
LEMMA EvaluationKeeps ==
    ASSUME ScriptInv, UNCHANGED heapVars, parsing, halted = "no",
           NEW c, NEW s, Ready(c, s),
           stack' = Below(Taken(c)), code' = Tail(code),
           frames' \in Seq(Frame(LivePointers)), Chain(frames'), Pending(frames') = Left(c),
           frames' # <<>>, frames'[1].f \notin Readers,
           UNCHANGED <<input, env, result, parsing>>
    PROVE  ScriptInv'
  <1>1. HeapInv' /\ TermsSound' /\ LivePointers' = LivePointers /\ heap' = heap
    BY SameHeap DEF ScriptInv, heapVars, LivePointers
  <1>2. ScriptTypes'
    BY <1>1 DEF ScriptInv, ScriptTypes, Ready
  <1>3. Bison'
    BY <1>1 DEF Bison, Ready
  <1>4. RetFits'
    <2>1. Head(frames') = frames'[1]
      BY HeadTailProperties
    <2> QED BY <2>1 DEF RetFits, Readers
  <1> QED BY <1>1, <1>2, <1>3, <1>4 DEF ScriptInv

Good == ScriptInv' /\ (HeapNext \/ UNCHANGED heapVars)

\* A pointer to a term stands for a term.
LEMMA PointerOf ==
    ASSUME NEW P, NEW h, NEW p \in P, NEW symbol \in {"term", "call", "identifier"},
           symbol = "identifier" => h[p.at].kind = "identifier",
           symbol # "call" => HasResult(h[p.at])
    PROVE  Is([ptr |-> p], symbol, P, h)
  BY DEF Is

LEMMA ShiftKeeps == ASSUME ScriptInv, Shift PROVE Good
  <1> DEFINE c == Head(code)
             t == c.term
             symbol == IF t.kind = "identifier" THEN "identifier" ELSE "term"
  <1>1. /\ Reducing({"shift"}) /\ NewTerm(t) /\ code' = Tail(code)
        /\ stack' = Append(stack, [ptr |-> NextPointer])
        /\ UNCHANGED <<input, frames, env, result, parsing>>
    BY DEF Shift, parseVars
  <1>2. PICK s : Ready(c, s) /\ parsing /\ frames = <<>> /\ c.r = "shift"
    BY <1>1, ReducingIsReady
  <1>3. Taken(c) = 0 /\ Left(c) = <<symbol>> /\ t \in Literals
    BY <1>2 DEF Taken, Left, Ready, Reduction
  <1>4. WellFormed(t) /\ Sound(t, heap)
    BY <1>3 DEF Literals, WellFormed, Sound
  <1>5. /\ HeapInv' /\ TermsSound' /\ Grows /\ HeapNext
        /\ NextPointer \in LivePointers' /\ heap'[NextPointer.at] = t
    BY <1>1, <1>4, NewTermKeeps DEF ScriptInv
  <1>6. symbol \in Symbols /\ Is([ptr |-> NextPointer], symbol, LivePointers', heap')
    BY <1>3, <1>5, PointerOf DEF Symbols, HasResult, Literals
  <1>7. Below(0) = stack
    BY SubSeqFull DEF Below, ScriptInv, ScriptTypes
  <1> HIDE DEF c, t, symbol
  <1>8. ScriptInv'
    BY <1>1, <1>2, <1>3, <1>5, <1>6, <1>7, BuildKeeps DEF c
  <1> QED BY <1>5, <1>8 DEF Good

\* A call takes its parameters from the stack, and below them its name if it has one.
LEMMA NamedCall ==
    ASSUME NEW c \in Reduction, c.r = "fun"
    PROVE  c.n \in Nat /\ Taken(c) = (IF c.fun \in Operators THEN c.n ELSE c.n + 1)
  <1>1. c \in [r : {"fun"}, fun : STRING, n : Nat]
    BY DEF Reduction
  <1> QED BY <1>1 DEF Taken

LEMMA ParameterTaken ==
    ASSUME NEW c, NEW s, Ready(c, s), c.r = "fun", NEW i \in 1 .. c.n
    PROVE  \E j \in 1 .. Taken(c) : Top(c.n, i) = Top(Taken(c), j) /\ (c.fun = "=" => j = i)
  <1> DEFINE n == c.n
             k == Taken(c)
             j == i + (k - n)
  <1>1. n \in Nat /\ k = (IF c.fun \in Operators THEN n ELSE n + 1) /\ Len(stack) \in Nat
    BY NamedCall DEF Ready
  <1> HIDE DEF n, k
  <1>2. i \in 1 .. n
    BY DEF n
  <1>3. j \in 1 .. k /\ Len(stack) - n + i = Len(stack) - k + j /\ (c.fun = "=" => j = i)
    BY <1>1, <1>2 DEF Operators
  <1> HIDE DEF j
  <1>4. Top(n, i) = Top(k, j)
    BY <1>3 DEF Top
  <1> QED BY <1>3, <1>4 DEF n, k

LEMMA NewFunKeeps == ASSUME ScriptInv, NewFun PROVE Good
  <1> DEFINE c == Head(code)
             n == c.n
             k == Taken(c)
             params == [i \in 1 .. n |-> Top(n, i).ptr]
             t == [kind |-> "fun", fun |-> c.fun, params |-> params]
             symbol == IF c.fun \in Resultless THEN "call" ELSE "term"
  <1>1. /\ Reducing({"fun"}) /\ Known(c.fun, n) /\ NewTerm(t) /\ code' = Tail(code)
        /\ stack' = Append(Below(k), [ptr |-> NextPointer])
        /\ UNCHANGED <<input, frames, env, result, parsing>>
    BY DEF NewFun, parseVars
  <1>2. PICK s : Ready(c, s) /\ parsing /\ frames = <<>> /\ c.r = "fun"
    BY <1>1, ReducingIsReady
  <1>3. n \in Nat /\ Left(c) = <<symbol>> /\ c \in Reduction
    BY <1>2, NamedCall DEF Left, Ready
  <1>4. \A i \in 1 .. n :
           /\ Top(n, i).ptr \in LivePointers
           /\ c.fun = "=" /\ i = 1 => heap[Top(n, i).ptr.at].kind = "identifier"
    <2> SUFFICES ASSUME NEW i \in 1 .. n
                 PROVE  /\ Top(n, i).ptr \in LivePointers
                        /\ c.fun = "=" /\ i = 1 => heap[Top(n, i).ptr.at].kind = "identifier"
      OBVIOUS
    <2>1. PICK j \in 1 .. k : Top(n, i) = Top(k, j) /\ (c.fun = "=" => j = i)
      BY <1>2, ParameterTaken
    <2>2. s[Len(s) - k + j] # "boolean" /\ (c.fun = "=" /\ j = 1 => s[Len(s) - k + j] = "identifier")
      BY <1>2, <2>1 DEF Ready, Fits
    <2>3. Is(Top(k, j), s[Len(s) - k + j], LivePointers, heap)
      BY <1>2, <2>1 DEF Ready
    <2> QED BY <2>1, <2>2, <2>3 DEF Is
  <1>5. params \in Seq(LivePointers) /\ Len(params) = n /\ DOMAIN params = 1 .. n
    BY <1>3, <1>4
  <1>6. WellFormed(t)
    <2>1. \A i \in 1 .. n : Live(params[i])
      BY <1>4, LiveIs DEF ScriptInv, HeapInv
    <2>2. params \in Seq(Pointer)
      <3>1. LivePointers \subseteq Pointer
        BY LiveIs DEF ScriptInv, HeapInv, Live
      <3> QED BY <1>5, <3>1, SeqMonotonic
    <2>3. c.fun \in Functions
      BY <1>1, ScriptAssumption DEF Known
    <2> HIDE DEF params
    <2> QED BY <1>5, <2>1, <2>2, <2>3 DEF WellFormed, Term
  <1>7. Sound(t, heap)
    <2>1. c.fun = "=" => 1 \in 1 .. n
      BY <1>1, <1>3, Calls
    <2> QED BY <1>1, <1>4, <1>5, <2>1 DEF Sound
  <1>8. symbol # "call" => HasResult(t)
    BY DEF HasResult
  <1> HIDE DEF t
  <1>9. /\ HeapInv' /\ TermsSound' /\ Grows /\ HeapNext
        /\ NextPointer \in LivePointers' /\ heap'[NextPointer.at] = t
    BY <1>1, <1>6, <1>7, NewTermKeeps DEF ScriptInv
  <1>10. symbol \in Symbols /\ Is([ptr |-> NextPointer], symbol, LivePointers', heap')
    BY <1>8, <1>9, PointerOf DEF Symbols
  <1> HIDE DEF c, n, k, symbol
  <1>11. ScriptInv'
    BY <1>1, <1>2, <1>3, <1>9, <1>10, BuildKeeps DEF c, k
  <1> QED BY <1>9, <1>11 DEF Good

LEMMA LogicKeeps == ASSUME ScriptInv, Logic PROVE Good
  <1> DEFINE c == Head(code)
             n == Taken(c)
  <1>1. /\ Reducing({"not", "and", "or"}) /\ code' = Tail(code)
        /\ UNCHANGED <<heapVars, input, frames, env, result, parsing>>
    BY DEF Logic, parseVars
  <1>2. PICK s : Ready(c, s) /\ parsing /\ frames = <<>> /\ halted = "no" /\ c.r \in {"not", "and", "or"}
    BY <1>1, ReducingIsReady
  <1>3. n = (IF c.r = "not" THEN 1 ELSE 2) /\ Left(c) = <<"boolean">>
    BY <1>2 DEF Taken, Left
  <1>4. PICK b \in BOOLEAN : stack' = Append(Below(n), [bool |-> b])
    <2> DEFINE x == Top(n, 1).bool
               y == Top(n, 2).bool
    <2>1. CASE c.r = "not"
      <3>1. n = 1 /\ stack' = Append(Below(n), [bool |-> ~x])
        BY <1>3, <2>1 DEF Logic
      <3>2. (~x) \in BOOLEAN
        OBVIOUS
      <3> QED BY <3>1, <3>2
    <2>2. CASE c.r = "and"
      <3>1. n = 2 /\ stack' = Append(Below(n), [bool |-> x /\ y])
        BY <1>3, <2>2 DEF Logic
      <3>2. (x /\ y) \in BOOLEAN
        OBVIOUS
      <3> QED BY <3>1, <3>2
    <2>3. CASE c.r = "or"
      <3>1. n = 2 /\ stack' = Append(Below(n), [bool |-> x \/ y])
        BY <1>3, <2>3 DEF Logic
      <3>2. (x \/ y) \in BOOLEAN
        OBVIOUS
      <3> QED BY <3>1, <3>2
    <2> QED BY <1>2, <2>1, <2>2, <2>3
  <1>5. HeapInv' /\ TermsSound' /\ Grows
    BY <1>1, <1>2, SameHeap DEF heapVars, ScriptInv
  <1>6. "boolean" \in Symbols /\ Is([bool |-> b], "boolean", LivePointers', heap')
    BY DEF Symbols, Is
  <1> HIDE DEF c
  <1>7. ScriptInv'
    BY <1>1, <1>2, <1>3, <1>4, <1>5, <1>6, BuildKeeps DEF c
  <1> QED BY <1>1, <1>7 DEF Good

\* A sequence with one element more.
LEMMA OneBehind ==
    ASSUME NEW S, NEW first \in Seq(S), NEW b \in S, NEW k \in Nat, Len(first) = k
    PROVE  LET all == first \o <<b>>
           IN /\ all \in Seq(S) /\ Len(all) = k + 1 /\ all[k + 1] = b
              /\ \A i \in 1 .. k : all[i] = first[i]
  <1> DEFINE all == first \o <<b>>
  <1>1. <<b>> \in Seq(S) /\ Len(<<b>>) = 1 /\ <<b>>[1] = b
    OBVIOUS
  <1>2. /\ all \in Seq(S) /\ Len(all) = k + 1
        /\ \A i \in 1 .. k + 1 : all[i] = IF i <= k THEN first[i] ELSE <<b>>[i - k]
    BY <1>1, ConcatProperties
  <1>3. k + 1 \in 1 .. k + 1 /\ ~(k + 1 <= k) /\ (k + 1) - k = 1
    OBVIOUS
  <1>4. \A i \in 1 .. k : i \in 1 .. k + 1 /\ i <= k
    OBVIOUS
  <1> HIDE DEF all
  <1>5. all[k + 1] = b /\ \A i \in 1 .. k : all[i] = first[i]
    BY <1>1, <1>2, <1>3, <1>4
  <1> QED BY <1>2, <1>5 DEF all

LEMMA NextTo ==
    ASSUME NEW m \in Int, NEW n \in Int, NEW i \in Int
    PROVE  m - n + i = m - (n + 1) + (i + 1)
  OBVIOUS

LEMMA ChainOfTwo == ASSUME NEW a, NEW b, Follows(a, b) PROVE Chain(<<a, b>>) /\ Pending(<<a, b>>) = Pushed(b)
  BY DEF Chain, Pending

LEMMA EvaluateKeeps == ASSUME ScriptInv, Evaluate PROVE Good
  <1> DEFINE c == Head(code)
             n == Taken(c)
  <1>1. /\ Reducing({"bool", "neg", "cmp", "run", "rule"}) /\ code' = Tail(code)
        /\ UNCHANGED <<heapVars, input, env, result, parsing>>
    BY DEF Evaluate, parseVars
  <1>2. PICK s : /\ Ready(c, s) /\ parsing /\ halted = "no"
                 /\ c.r \in {"bool", "neg", "cmp", "run", "rule"}
    BY <1>1, ReducingIsReady
  <1>3. ASSUME NEW i \in 1 .. n, c.r = "rule" => i # 1
        PROVE  Top(n, i).ptr \in LivePointers
    <2>1. s[Len(s) - n + i] # "boolean"
      <3>1. CASE c.r = "rule"
        <4>1. i \in 2 .. n
          BY <1>2, <1>3, <3>1 DEF Ready
        <4> QED BY <1>2, <3>1, <4>1 DEF Ready, Fits
      <3>2. CASE c.r # "rule"
        BY <1>2, <3>2 DEF Ready, Fits
      <3> QED BY <3>1, <3>2
    <2>2. Is(Top(n, i), s[Len(s) - n + i], LivePointers, heap)
      BY <1>2 DEF Ready
    <2> QED BY <2>1, <2>2 DEF Is
  <1>4. \A p \in LivePointers : Resolve(p) \in Frame(LivePointers)
    BY DEF Resolve, Frame
  <1> DEFINE Runs ==
        /\ stack' = Below(n) /\ frames' \in Seq(Frame(LivePointers)) /\ Chain(frames')
        /\ Pending(frames') = Left(c) /\ frames' # <<>> /\ frames'[1].f \notin Readers
  <1>5. ASSUME c.r \in {"bool", "neg"} PROVE Runs
    <2> DEFINE a == Resolve(Top(1, 1).ptr)
               b == [f |-> c.r]
    <2>1. n = 1 /\ Left(c) = Pushed(b)
      BY <1>5 DEF Taken, Left, Pushed, Enders, Pushers
    <2>2. stack' = Below(1) /\ frames' = <<a, b>>
      BY <1>5 DEF Evaluate
    <2>3. a \in Frame(LivePointers) /\ a.f = "resolve"
      BY <1>3, <1>4, <1>5, <2>1 DEF Resolve
    <2>4. b \in Frame(LivePointers) /\ b.f = c.r
      BY <1>5 DEF Frame
    <2>5. Follows(a, b)
      BY <1>5, <2>3, <2>4 DEF Follows, Enders, Pushers, StringReaders
    <2> HIDE DEF a, b
    <2> QED BY <2>1, <2>2, <2>3, <2>4, <2>5, ChainOfTwo DEF Readers, StringReaders
  <1>6. ASSUME c.r = "cmp" PROVE Runs
    <2> DEFINE a == Resolve(Top(2, 1).ptr)
               b == [f |-> "cmp", rel |-> c.rel, right |-> Top(2, 2).ptr]
    <2>1. n = 2 /\ Left(c) = Pushed(b) /\ c.rel \in Rels
      BY <1>2, <1>6 DEF Taken, Left, Pushed, Enders, Pushers, Ready, Reduction
    <2>2. stack' = Below(2) /\ frames' = <<a, b>>
      BY <1>6 DEF Evaluate
    <2>3. a \in Frame(LivePointers) /\ a.f = "resolve"
      BY <1>3, <1>4, <1>6, <2>1 DEF Resolve
    <2>4. b \in Frame(LivePointers) /\ b.f = "cmp"
      <3>1. Top(2, 2).ptr \in LivePointers
        BY <1>3, <1>6, <2>1
      <3> HIDE DEF c
      <3> QED BY <2>1, <3>1, FrameMade DEF Frame
    <2>5. Follows(a, b)
      BY <2>3, <2>4 DEF Follows, Enders, Pushers, StringReaders
    <2> HIDE DEF a, b
    <2> QED BY <2>1, <2>2, <2>3, <2>4, <2>5, ChainOfTwo DEF Readers, StringReaders
  <1>7. ASSUME c.r = "run" PROVE Runs
    <2> DEFINE a == Resolve(Top(1, 1).ptr)
               b == [f |-> "result"]
    <2>1. n = 1 /\ Left(c) = Pushed(b)
      BY <1>7 DEF Taken, Left, Pushed, Enders, Pushers
    <2>2. stack' = Below(1) /\ frames' = <<a, b>>
      BY <1>7 DEF Evaluate
    <2>3. a \in Frame(LivePointers) /\ a.f = "resolve"
      BY <1>3, <1>4, <1>7, <2>1 DEF Resolve
    <2>4. b \in Frame(LivePointers) /\ b.f = "result"
      BY DEF Frame
    <2>5. Follows(a, b)
      BY <2>3, <2>4 DEF Follows, Enders, Pushers, StringReaders
    <2> HIDE DEF a, b
    <2> QED BY <2>1, <2>2, <2>3, <2>4, <2>5, ChainOfTwo DEF Readers, StringReaders
  <1>8. ASSUME c.r = "rule" PROVE Runs
    <2> DEFINE b == [f |-> "no result"]
               k == IF Top(c.n + 1, 1).bool THEN c.n ELSE 0
               first == IF Top(c.n + 1, 1).bool THEN Block(c.n) ELSE <<>>
    <2>1. n = c.n + 1 /\ Left(c) = <<>> /\ c.n \in Nat /\ k \in Nat
      BY <1>2, <1>8 DEF Taken, Left, Ready, Reduction
    <2>2. stack' = Below(c.n + 1) /\ frames' = first \o <<b>>
      BY <1>8 DEF Evaluate
    <2>3. b \in Frame(LivePointers) /\ b.f = "no result"
      BY DEF Frame
    <2>4. /\ first \in Seq(Frame(LivePointers)) /\ Len(first) = k
          /\ \A i \in 1 .. k : first[i].f = "resolve"
      <3>1. \A i \in 1 .. c.n : Resolve(Top(c.n, i).ptr) \in Frame(LivePointers)
        <4> SUFFICES ASSUME NEW i \in 1 .. c.n PROVE Resolve(Top(c.n, i).ptr) \in Frame(LivePointers)
          OBVIOUS
        <4>1. i + 1 \in 1 .. n /\ i + 1 # 1
          BY <2>1
        <4>2. Len(stack) - c.n + i = Len(stack) - n + (i + 1)
          <5>1. Len(stack) \in Int /\ c.n \in Int /\ i \in Int
            BY <1>2, <2>1 DEF Ready
          <5> QED BY <2>1, <5>1, NextTo
        <4>3. Top(c.n, i) = Top(n, i + 1)
          BY <4>2 DEF Top
        <4> QED BY <1>3, <1>4, <4>1, <4>3
      <3>2. CASE Top(c.n + 1, 1).bool
        BY <2>1, <3>1, <3>2 DEF Block, Resolve
      <3>3. CASE ~Top(c.n + 1, 1).bool
        BY <3>3
      <3> QED BY <3>2, <3>3
    <2> HIDE DEF first, b, k
    <2>5. /\ frames' \in Seq(Frame(LivePointers)) /\ Len(frames') = k + 1
          /\ frames'[k + 1] = b
          /\ \A i \in 1 .. k : frames'[i] = first[i]
      <3> DEFINE all == first \o <<b>>
      <3>1. /\ all \in Seq(Frame(LivePointers)) /\ Len(all) = k + 1 /\ all[k + 1] = b
            /\ \A i \in 1 .. k : all[i] = first[i]
        <4>1. first \in Seq(Frame(LivePointers)) /\ Len(first) = k
          BY <2>4
        <4>2. b \in Frame(LivePointers) /\ k \in Nat
          BY <2>1, <2>3
        <4> QED BY ONLY <4>1, <4>2, OneBehind
      <3>2. frames' = all
        BY <2>2
      <3> QED BY <3>1, <3>2
    <2>6. \A i \in 1 .. k + 1 : frames'[i].f \in {"resolve", "no result"}
      <3>1. \A i \in 1 .. k + 1 : i \in 1 .. k \/ i = k + 1
        BY <2>1
      <3> QED BY <2>3, <2>4, <2>5, <3>1
    <2>7. Chain(frames')
      <3>1. \A i \in 1 .. k : i \in 1 .. k + 1 /\ i + 1 \in 1 .. k + 1
        BY <2>1
      <3>2. \A i \in 1 .. k : Follows(frames'[i], frames'[i + 1])
        <4>1. \A i \in 1 .. k : frames'[i].f = "resolve"
          BY <2>4, <2>5
        <4> QED BY <2>6, <3>1, <4>1 DEF Follows, Enders, StringReaders
      <3>3. Len(frames') - 1 = k
        BY <2>1, <2>5
      <3> QED BY <3>2, <3>3 DEF Chain
    <2>8. frames' # <<>> /\ 1 \in 1 .. k + 1
      BY <2>1, <2>5
    <2>9. Pending(frames') = <<>>
      BY <2>3, <2>5, <2>8 DEF Pending, Pushed, Enders, Pushers
    <2> QED BY <2>1, <2>2, <2>5, <2>6, <2>7, <2>8, <2>9 DEF Readers, StringReaders
  <1>9. Runs
    BY <1>2, <1>5, <1>6, <1>7, <1>8
  <1> HIDE DEF c
  <1>10. ScriptInv'
    BY <1>1, <1>2, <1>9, EvaluationKeeps DEF c
  <1> QED BY <1>1, <1>10 DEF Good

\* yyparse() returns: nothing is left on the three stacks but what repl() prints.
LEMMA EndKeeps ==
    ASSUME ScriptInv, halted = "no", parsing, EndParse, code' = <<>>, stack' = <<>>
    PROVE  Good
  <1>1. /\ UNCHANGED heapVars /\ parsing' = FALSE
        /\ UNCHANGED <<input, ret, env, result>>
        /\ \/ frames' = <<>>
           \/ result # Null /\ frames' = <<Resolve(result), ToStr, [f |-> "shown"]>>
    BY DEF EndParse
  <1>2. HeapInv' /\ TermsSound' /\ LivePointers' = LivePointers
    BY <1>1, SameHeap DEF ScriptInv, heapVars, LivePointers
  <1>3. stack' \in Seq(Entry(LivePointers'))
    BY EmptySeq
  <1>4. /\ frames' \in Seq(Frame(LivePointers')) /\ Chain(frames') /\ Pending(frames') = <<>>
        /\ RetFits'
    <2>1. CASE frames' = <<>>
      BY <2>1 DEF Chain, Pending, RetFits
    <2>2. CASE result # Null /\ frames' = <<Resolve(result), ToStr, [f |-> "shown"]>>
      <3>1. result \in LivePointers
        BY <2>2 DEF ScriptInv, ScriptTypes
      <3> DEFINE a == Resolve(result)
                 b == ToStr
                 c == [f |-> "shown"]
      <3>2. a \in Frame(LivePointers) /\ b \in Frame(LivePointers) /\ c \in Frame(LivePointers)
        BY <3>1 DEF Frame, Resolve, ToStr
      <3>3. a.f = "resolve" /\ b.f = "text" /\ c.f = "shown"
        BY DEF Resolve, ToStr
      <3> HIDE DEF a, b, c
      <3>4. Follows(a, b) /\ Follows(b, c) /\ Pushed(c) = <<>> /\ a.f \notin Readers
        BY <3>3 DEF Follows, Enders, Pushers, StringReaders, Pushed, Readers
      <3>5. frames' = <<a, b, c>>
        BY <2>2 DEF a, b, c
      <3>6. Chain(frames') /\ Pending(frames') = <<>>
        BY <3>4, <3>5 DEF Chain, Pending
      <3>7. RetFits'
        BY <3>4, <3>5 DEF RetFits, Readers
      <3>8. frames' \in Seq(Frame(LivePointers))
        BY <3>2, <3>5
      <3> QED BY <1>2, <3>6, <3>7, <3>8
    <2> QED BY <1>1, <2>1, <2>2
  <1>5. ScriptTypes'
    BY <1>1, <1>3, <1>4 DEF ScriptInv, ScriptTypes
  <1>6. Bison'
    BY <1>1, <1>4 DEF Bison
  <1> QED BY <1>1, <1>2, <1>4, <1>5, <1>6 DEF ScriptInv, Good

LEMMA SyntaxErrorKeeps == ASSUME ScriptInv, SyntaxError PROVE Good
  BY EndKeeps DEF SyntaxError, Reducing

LEMMA EndOfInputKeeps == ASSUME ScriptInv, EndOfInput PROVE Good
  <1>1. parsing /\ frames = <<>> /\ code = <<>> /\ code' = code /\ stack' = stack
    BY DEF EndOfInput
  <1>2. PICK s : Are(stack, s, LivePointers, heap) /\ Parses(code, s \o <<>>)
    BY <1>1, Zenon DEF ScriptInv, Bison, Pending
  <1>3. s = <<>>
    BY <1>1, <1>2, ParsesNothing, ConcatEmptySeq DEF Are
  <1>4. stack = <<>>
    BY <1>2, <1>3, EmptySeq DEF Are, ScriptInv, ScriptTypes
  <1> QED BY <1>1, <1>4, EndKeeps DEF EndOfInput

LEMMA NextStatementKeeps == ASSUME ScriptInv, NextStatement PROVE Good
  <1>1. /\ halted = "no" /\ parsing /\ frames = <<>> /\ code = <<>> /\ input # <<>>
        /\ code' = Reductions(Head(input)) /\ input' = Tail(input)
        /\ UNCHANGED <<heapVars, stack, frames, ret, env, result, parsing>>
    BY DEF NextStatement, parseVars
  <1>2. PICK s : Are(stack, s, LivePointers, heap) /\ Parses(code, s \o <<>>)
    BY <1>1, Zenon DEF ScriptInv, Bison, Pending
  <1>3. s = <<>> /\ s \o <<>> = s
    BY <1>1, <1>2, ParsesNothing, ConcatEmptySeq DEF Are
  <1>4. Head(input) \in AllStatements /\ Tail(input) \in Seq(AllStatements)
    BY <1>1, HeadTailProperties DEF ScriptInv, ScriptTypes
  <1>5. HeapInv' /\ TermsSound' /\ LivePointers' = LivePointers /\ heap' = heap
    BY <1>1, SameHeap DEF ScriptInv, heapVars, LivePointers
  <1>6. Bison'
    <2>1. Parses(code', s \o <<>>)
      BY <1>1, <1>3, <1>4, ParsesStatement
    <2>2. Pending(frames') = <<>> /\ parsing' /\ stack' = stack
      BY <1>1 DEF Pending
    <2> QED BY <1>2, <1>5, <2>1, <2>2 DEF Bison
  <1>7. ScriptTypes'
    BY <1>1, <1>4, <1>5 DEF ScriptInv, ScriptTypes
  <1> QED BY <1>1, <1>5, <1>6, <1>7 DEF ScriptInv, Good, Chain, RetFits

\* A collection may start: the interpreter has no pointer left that it would use.
LEMMA EvalKeeps == ASSUME ScriptInv, Eval PROVE Good
  <1>1. ~parsing /\ frames = <<>> /\ StartGc /\ UNCHANGED <<code, stack, frames, ret, env>>
    BY DEF Eval
  <1>2. /\ input' \in Seq(AllStatements) /\ parsing' \in BOOLEAN
        /\ parsing' => result' = Null
    <2>1. SetInput
      BY DEF Eval
    <2>2. input \in Seq(AllStatements) /\ parsing \in BOOLEAN
      BY DEF ScriptInv, ScriptTypes
    <2>3. \A s \in Inputs : input \o s \in Seq(AllStatements)
      BY <2>2, ScriptAssumption, ConcatProperties
    <2>4. CASE UNCHANGED <<input, parsing, result>>
      <3>1. input' = input /\ parsing' = parsing
        BY <2>4
      <3> QED BY <1>1, <2>2, <3>1, Zenon
    <2>5. CASE (\E s \in Inputs : input' = input \o s) /\ parsing' = TRUE /\ result' = Null
      BY <2>3, <2>5
    <2> QED BY <2>1, <2>4, <2>5, Zenon DEF SetInput
  <1>3. stack = <<>> /\ code = <<>>
    BY <1>1 DEF ScriptInv, Bison
  <1>4. HeapInv'
    BY <1>1, StartGcStep DEF ScriptInv
  <1>5. TermsSound'
    BY <1>1 DEF StartGc, ScriptInv, TermsSound, Sound
  <1>6. ScriptTypes'
    <2>1. frames' \in Seq(Frame(LivePointers')) /\ stack' \in Seq(Entry(LivePointers'))
      BY <1>1, <1>3, EmptySeq
    <2> QED BY <1>1, <1>2, <2>1 DEF ScriptInv, ScriptTypes
  <1>7. Bison'
    <2>1. Pending(frames') = <<>> /\ stack' = <<>> /\ code' = <<>>
      BY <1>1, <1>3 DEF Pending
    <2>2. <<>> \o <<>> = <<>> /\ <<>> \in Seq(Symbols) /\ Len(<<>>) = 0
      BY ConcatEmptySeq, EmptySeq
    <2>3. Are(<<>>, <<>>, LivePointers', heap')
      BY <2>2 DEF Are
    <2>4. Parses(<<>>, <<>>)
      <3> DEFINE stacks == [i \in 1 .. 1 |-> <<>>]
      <3>1. <<>> \in Seq(Reduction) /\ stacks \in [1 .. 0 + 1 -> Seq(Symbols)]
        BY <2>2, EmptySeq
      <3>2. stacks[0 + 1] = <<>> /\ stacks[1] = <<>>
        OBVIOUS
      <3>3. Derivation(<<>>, stacks) /\ \A i \in 1 .. Len(<<>>) : FALSE
        BY <2>2, <3>1, <3>2 DEF Derivation
      <3> QED BY <3>2, <3>3 DEF Parses
    <2> HIDE DEF Are, Parses
    <2>5. Are(stack', <<>>, LivePointers', heap') /\ Parses(code', <<>> \o Pending(frames'))
      BY <2>1, <2>2, <2>3, <2>4
    <2> QED BY <2>1, <2>5 DEF Bison
  <1>8. HeapNext
    BY <1>1 DEF HeapNext, Gc
  <1> QED BY <1>1, <1>4, <1>5, <1>6, <1>7, <1>8 DEF ScriptInv, Good, Chain, RetFits

LEMMA CollectKeeps == ASSUME ScriptInv, Collect PROVE Good
  <1>1. HeapNext
    BY DEF Collect, HeapNext, Gc
  <1>2. HeapInv'
    BY CopyVariableStep, FreeOldHeapStep DEF Collect, ScriptInv
  <1>3. TermsSound' /\ Grows
    <2>1. CASE FreeOldHeap
      BY <2>1 DEF FreeOldHeap, ScriptInv, TermsSound, Grows, LivePointers
    <2>2. CASE CopyVariable
      <3> DEFINE v == Head(oldVariables)
                 t == Deref(v.value)
      <3>1. CASE heap' = heap /\ gen' = gen /\ oldHeap' = oldHeap
        BY <3>1 DEF ScriptInv, TermsSound, Grows, LivePointers
      <3>2. CASE v.value # Null /\ Duped(t) /\ heap' = Append(heap, t) /\ gen' = gen /\ oldHeap' = oldHeap
        <4>1. oldVariables # <<>>
          BY <2>2 DEF CopyVariable
        <4>2. t = oldHeap[v.value.at] /\ t \in Term /\ v = oldVariables[1] /\ collecting
          BY <3>2, <4>1, CopyProperties DEF ScriptInv
        <4>3. v.value.at \in 1 .. Len(oldHeap)
          <5>1. 1 \in 1 .. Len(oldVariables)
            BY <4>1, EmptySeq DEF ScriptInv, HeapInv, HeapTypeOK
          <5> QED BY <3>2, <4>2, <5>1 DEF ScriptInv, HeapInv, NoDangling, Pointer
        <4>4. \A h : Sound(t, h)
          BY <3>2, <4>2, <4>3 DEF Sound, Duped, ScriptInv, TermsSound
        <4>5. heap \in Seq(Term) /\ Len(heap) \in Nat
          BY DEF ScriptInv, HeapInv, HeapTypeOK
        <4> HIDE DEF t
        <4>6. /\ Len(heap') = Len(heap) + 1 /\ heap'[Len(heap) + 1] = t
              /\ \A i \in 1 .. Len(heap) : heap'[i] = heap[i]
          BY <3>2, <4>2, <4>5
        <4>7. Grows
          BY <3>2, <4>5, <4>6 DEF Grows, LivePointers
        <4>8. \A i \in 1 .. Len(heap') : Sound(heap'[i], heap')
          BY <3>2, <4>2, <4>4, SoundAdded DEF ScriptInv
        <4> QED BY <3>2, <4>7, <4>8 DEF ScriptInv, TermsSound
      <3> QED BY <2>2, <3>1, <3>2 DEF CopyVariable, NullDeref
    <2> QED BY <2>1, <2>2 DEF Collect
  <1>4. /\ UNCHANGED <<input, code, stack, frames, ret, env, result, parsing>>
        /\ collecting
    BY DEF Collect, scriptVars, parseVars, CopyVariable, FreeOldHeap, ScriptInv, HeapInv, HeapTypeOK
  <1>5. Waits
    BY <1>2, <1>3, <1>4 DEF Waits, ScriptInv, ScriptTypes
  <1>6. frames' \in Seq(Frame(LivePointers'))
    BY <1>3, <1>4, FramesGrow DEF ScriptInv, ScriptTypes, Grows
  <1>7. ScriptTypes' /\ Bison'
    BY <1>4, <1>5, <1>6, WaitingTypes, WaitingBison DEF ScriptInv
  <1>8. RetFits'
    BY <1>3, <1>4 DEF ScriptInv, RetFits, IsString, Grows
  <1> QED BY <1>1, <1>2, <1>3, <1>4, <1>7, <1>8 DEF ScriptInv, Good

-----------------------------------------------------------------------------
(* The functions.                                                          *)

LEMMA RunningTop ==
    ASSUME ScriptInv, NEW f, Running(f)
    PROVE  /\ halted = "no" /\ ~collecting /\ frames # <<>>
           /\ Head(frames) \in Frame(LivePointers) /\ Head(frames).f = f
           /\ f \in Readers => ret \in LivePointers \cup {Null}
           /\ f \in StringReaders => IsString(ret)
  BY TopFrame DEF Running, ScriptInv, RetFits

LEMMA GotoWaits ==
    ASSUME ScriptInv, HeapInv', TermsSound', Grows,
           UNCHANGED <<input, code, stack, env, parseVars>>
    PROVE  Waits
  BY DEF Waits, ScriptInv, ScriptTypes, parseVars

LEMMA QuietlyWaits ==
    ASSUME ScriptInv, UNCHANGED heapVars, UNCHANGED <<input, code, stack, env, parseVars>>
    PROVE  Waits
  <1>1. halted \in {"no", "out_of_heap", "null", "stack", "off"}
    BY DEF ScriptInv, HeapInv, HeapTypeOK
  <1>2. HeapInv' /\ TermsSound' /\ Grows
    BY <1>1, SameHeap DEF ScriptInv, heapVars
  <1> QED BY <1>2, GotoWaits

\* The frame b may stand where the frame top was.
Like(b, top) ==
    /\ Pushed(b) = Pushed(top)
    /\ b.f \in Enders => top.f \in Enders
    /\ top.f = "text" => b.f = "text"

\* A function calls one, two or three others before it goes on.
LEMMA CallsOne ==
    ASSUME ScriptInv, Waits, frames # <<>>,
           NEW a \in Frame(LivePointers'), a.f \notin Readers, Like(a, Head(frames)),
           frames' = <<a>> \o Tail(frames)
    PROVE  ScriptInv'
  <1> DEFINE new == <<a>>
  <1>1. new \in Seq(Frame(LivePointers')) /\ new # <<>> /\ new[1] = a /\ new[Len(new)] = a /\ Len(new) = 1
    OBVIOUS
  <1>2. Chain(new)
    BY DEF Chain
  <1> HIDE DEF new
  <1> QED BY <1>1, <1>2, CallsKeep DEF Like, new

LEMMA CallsTwo ==
    ASSUME ScriptInv, Waits, frames # <<>>,
           NEW a \in Frame(LivePointers'), a.f \notin Readers,
           NEW b \in Frame(LivePointers'), Follows(a, b), Like(b, Head(frames)),
           frames' = <<a, b>> \o Tail(frames)
    PROVE  ScriptInv'
  <1> DEFINE new == <<a, b>>
  <1>1. new \in Seq(Frame(LivePointers')) /\ new # <<>> /\ new[1] = a /\ new[Len(new)] = b
    OBVIOUS
  <1>2. Chain(new)
    BY ChainOfTwo
  <1> HIDE DEF new
  <1> QED BY <1>1, <1>2, CallsKeep DEF Like, new

LEMMA ChainOfThree ==
    ASSUME NEW a, NEW b, NEW c, Follows(a, b), Follows(b, c)
    PROVE  Chain(<<a, b, c>>)
  BY DEF Chain

LEMMA CallsThree ==
    ASSUME ScriptInv, Waits, frames # <<>>,
           NEW a \in Frame(LivePointers'), a.f \notin Readers,
           NEW b \in Frame(LivePointers'), Follows(a, b),
           NEW c \in Frame(LivePointers'), Follows(b, c), Like(c, Head(frames)),
           frames' = <<a, b, c>> \o Tail(frames)
    PROVE  ScriptInv'
  <1> DEFINE new == <<a, b, c>>
  <1>1. new \in Seq(Frame(LivePointers')) /\ new # <<>> /\ new[1] = a /\ new[Len(new)] = c
    OBVIOUS
  <1>2. Chain(new)
    BY ChainOfThree
  <1> HIDE DEF new
  <1> QED BY <1>1, <1>2, CallsKeep DEF Like, new

\* What a function returns is a new term.
LEMMA NewReturned ==
    ASSUME ScriptInv, frames # <<>>, NEW t, WellFormed(t), Sound(t, heap), NewTerm(t),
           Return(NextPointer), Head(frames).f \notin Pushers,
           Head(frames).f = "text" => t.kind = "string"
    PROVE  Good
  <1>1. /\ HeapInv' /\ TermsSound' /\ Grows /\ HeapNext
        /\ NextPointer \in LivePointers' /\ heap'[NextPointer.at] = t
    BY NewTermKeeps DEF ScriptInv
  <1>2. /\ ret' = NextPointer /\ frames' = <<>> \o Tail(frames)
        /\ UNCHANGED <<input, code, stack, env, parseVars>>
    BY DEF Return, Goto
  <1>3. Waits
    BY <1>1, <1>2, GotoWaits
  <1>4. frames' = Tail(frames)
    BY <1>2, Dropped DEF ScriptInv, ScriptTypes
  <1>5. Head(frames).f = "text" => IsString(ret)'
    BY <1>1, <1>2 DEF IsString
  <1> QED BY <1>1, <1>2, <1>3, <1>4, <1>5, ReturnKeeps DEF Good

\* What a function returns was there before, or is nothing.
LEMMA OldReturned ==
    ASSUME ScriptInv, frames # <<>>, UNCHANGED heapVars,
           NEW p \in LivePointers \cup {Null}, Return(p),
           Head(frames).f \notin Pushers,
           Head(frames).f = "text" => IsString(p)
    PROVE  Good
  <1>1. /\ ret' = p /\ frames' = <<>> \o Tail(frames)
        /\ UNCHANGED <<input, code, stack, env, parseVars>>
    BY DEF Return, Goto
  <1>2. Waits /\ LivePointers' = LivePointers /\ heap' = heap
    BY <1>1, QuietlyWaits DEF heapVars, LivePointers
  <1>3. frames' = Tail(frames)
    BY <1>1, Dropped DEF ScriptInv, ScriptTypes
  <1>4. Head(frames).f = "text" => IsString(ret)'
    BY <1>1, <1>2 DEF IsString
  <1> QED BY <1>1, <1>2, <1>3, <1>4, ReturnKeeps DEF Good

\* What a call begins with may stand where the call was resolved.
Begins(new) ==
    /\ new \in Seq(Frame(LivePointers)) /\ new # <<>> /\ Chain(new)
    /\ new[1].f \notin Readers /\ new[Len(new)].f \notin Enders

LEMMA PlainCalls ==
    /\ \A f \in {"resolve", "print", "vars", "poweroff"} : f \notin Readers
    /\ \A f \in {"assign", "left", "print", "getenv", "setname", "sleep", "vars", "poweroff"} :
           f \notin Enders
  BY DEF Readers, StringReaders, Enders

\* What a call of a sound term does first keeps the order of the frames.
LEMMA BodyBegins ==
    ASSUME ScriptInv, NEW p \in LivePointers, NEW t, t = Deref(p), t.kind = "fun"
    PROVE  Begins(Body(t))
  <1> DEFINE P == LivePointers
             first == Resolve(IF t.params = <<>> THEN Null ELSE t.params[1])
             n == Len(t.params)
  <1>1. t.params \in Seq(P) /\ Sound(t, heap) /\ t \in Term
    BY DerefIs DEF ScriptInv
  <1>2. t.fun \in DOMAIN Arity /\ n >= Arity[t.fun] /\ n \in Nat
    BY <1>1 DEF Sound, Known
  <1>3. first \in Frame(P) /\ first.f = "resolve"
    <2> DEFINE q == IF t.params = <<>> THEN Null ELSE t.params[1]
    <2>1. q \in P \cup {Null}
      BY <1>1, EmptySeq, ElementOfSeq
    <2> HIDE DEF q
    <2>2. Resolve(q) \in Frame(P) /\ Resolve(q).f = "resolve"
      BY <2>1 DEF Frame, Resolve
    <2> QED BY <2>2 DEF q
  <1>4. ToStr \in Frame(P) /\ ToStr.f = "text"
    BY DEF ToStr, Frame
  <1>5. CASE t.fun = "="
    <2> DEFINE a == Resolve(t.params[2])
               b == [f |-> "assign", name |-> Deref(t.params[1]).name]
    <2>1. n >= 2 /\ t.params[1] \in P /\ t.params[2] \in P
      BY <1>1, <1>2, <1>5 DEF Arity
    <2>2. Deref(t.params[1]).kind = "identifier"
      BY <1>1, <1>5, <2>1, LiveIs DEF Sound, ScriptInv, HeapInv
    <2>3. Deref(t.params[1]).name \in Names
      BY <2>1, <2>2, DerefIs DEF ScriptInv
    <2>4. a \in Frame(P) /\ b \in Frame(P) /\ a.f = "resolve" /\ b.f = "assign"
      BY <2>1, <2>3 DEF Frame, Resolve
    <2>5. Body(t) = <<a, b>>
      BY <1>5 DEF Body
    <2> HIDE DEF a, b
    <2>6. Chain(<<a, b>>)
      BY <2>4, ChainOfTwo DEF Follows, Enders, Pushers, StringReaders
    <2> QED BY <2>4, <2>5, <2>6, PlainCalls DEF Begins
  <1>6. CASE t.fun \in {"+", "-"}
    <2> DEFINE b == [f |-> "left", fun |-> t.fun, right |-> t.params[2]]
    <2>1. n >= 2 /\ t.params[2] \in P
      BY <1>1, <1>2, <1>6 DEF Arity
    <2>2. b \in Frame(P) /\ b.f = "left"
      BY <1>6, <2>1 DEF Frame
    <2>3. Body(t) = <<first, b>>
      BY <1>6 DEF Body
    <2> HIDE DEF b, first
    <2>4. Chain(<<first, b>>)
      BY <1>3, <2>2, ChainOfTwo DEF Follows, Enders, Pushers, StringReaders
    <2> QED BY <1>3, <2>2, <2>3, <2>4, PlainCalls DEF Begins
  <1>7. CASE t.fun = "print"
    <2> DEFINE b == [f |-> "print", rest |-> t.params]
    <2>1. b \in Frame(P) /\ b.f = "print"
      BY <1>1 DEF Frame
    <2>2. Body(t) = <<b>>
      BY <1>7 DEF Body
    <2> HIDE DEF b
    <2> QED BY <2>1, <2>2, PlainCalls DEF Begins, Chain
  <1>8. CASE t.fun = "getenv"
    <2> DEFINE c == [f |-> "getenv"]
    <2>1. c \in Frame(P) /\ c.f = "getenv"
      BY DEF Frame
    <2>2. Body(t) = <<first, ToStr, c>>
      BY <1>8 DEF Body
    <2> HIDE DEF c, first
    <2>3. Chain(<<first, ToStr, c>>)
      BY <1>3, <1>4, <2>1, ChainOfThree DEF Follows, Enders, Pushers, StringReaders
    <2> QED BY <1>3, <1>4, <2>1, <2>2, <2>3, PlainCalls DEF Begins
  <1>9. CASE t.fun = "setenv"
    <2> DEFINE c == [f |-> "setname", value |-> t.params[2]]
    <2>1. n >= 2 /\ t.params[2] \in P
      BY <1>1, <1>2, <1>9 DEF Arity
    <2>2. c \in Frame(P) /\ c.f = "setname"
      BY <2>1 DEF Frame
    <2>3. Body(t) = <<first, ToStr, c>>
      BY <1>9 DEF Body
    <2> HIDE DEF c, first
    <2>4. Chain(<<first, ToStr, c>>)
      BY <1>3, <1>4, <2>2, ChainOfThree DEF Follows, Enders, Pushers, StringReaders
    <2> QED BY <1>3, <1>4, <2>2, <2>3, <2>4, PlainCalls DEF Begins
  <1>10. CASE t.fun = "sleep"
    <2> DEFINE b == [f |-> "sleep"]
    <2>1. b \in Frame(P) /\ b.f = "sleep"
      BY DEF Frame
    <2>2. Body(t) = <<first, b>>
      BY <1>10 DEF Body
    <2> HIDE DEF b, first
    <2>3. Chain(<<first, b>>)
      BY <1>3, <2>1, ChainOfTwo DEF Follows, Enders, Pushers, StringReaders
    <2> QED BY <1>3, <2>1, <2>2, <2>3, PlainCalls DEF Begins
  <1>11. CASE t.fun \in {"vars", "poweroff"}
    <2> DEFINE b == [f |-> t.fun]
    <2>1. b \in Frame(P) /\ b.f \in {"vars", "poweroff"}
      BY <1>11 DEF Frame
    <2>2. Body(t) = <<b>>
      BY <1>11 DEF Body
    <2> HIDE DEF b
    <2> QED BY <2>1, <2>2, PlainCalls DEF Begins, Chain
  <1>12. DOMAIN Arity = {"=", "+", "-", "setenv", "print", "getenv", "sleep", "vars", "poweroff"}
    BY DEF Arity
  <1> QED BY <1>2, <1>5, <1>6, <1>7, <1>8, <1>9, <1>10, <1>11, <1>12

LEMMA RunResolveKeeps == ASSUME ScriptInv, RunResolve PROVE Good
  <1> DEFINE top == Head(frames)
             p == top.ptr
             t == Deref(p)
             q == variables[Find(variables, t.name)].value
  <1>1. /\ halted = "no" /\ ~collecting /\ frames # <<>> /\ p # Null
        /\ top \in Frame(LivePointers) /\ top.f = "resolve"
    BY RunningTop DEF RunResolve
  <1>2. p \in LivePointers
    BY <1>1, FrameFields
  <1>3. t.kind = "identifier" => t.name \in Names
    BY <1>2, DerefIs DEF ScriptInv
  <1>4. top.f \notin Pushers /\ top.f # "text" /\ Pushed(top) = <<>>
    BY <1>1 DEF Enders, Pushers, Pushed
  <1>5. CASE /\ t.kind = "identifier" /\ Found(variables, t.name)
             /\ Goto(<<Resolve(q)>>) /\ UNCHANGED <<heapVars, ret>>
    <2>1. q \in LivePointers \cup {Null}
      <3>1. Find(variables, t.name) \in 1 .. Len(variables)
        BY <1>5, FindProperties DEF ScriptInv, HeapInv, NamedOnce, Once
      <3> QED BY <3>1, LiveIs DEF ScriptInv, HeapInv, NoDangling
    <2> DEFINE a == Resolve(q)
    <2>2. a.f = "resolve" /\ a \in Frame(LivePointers)
      BY <2>1 DEF Resolve, Frame
    <2>3. Waits /\ frames' = <<a>> \o Tail(frames) /\ LivePointers' = LivePointers
      BY <1>5, QuietlyWaits DEF Goto, heapVars, LivePointers
    <2> HIDE DEF a
    <2>4. Like(a, top) /\ a.f \notin Readers
      BY <1>4, <2>2 DEF Like, Pushed, Enders, Pushers, Readers, StringReaders
    <2>5. ScriptInv'
      BY <1>1, <2>2, <2>3, <2>4, CallsOne
    <2> QED BY <1>5, <2>5 DEF Good
  <1>6. CASE /\ t.kind = "identifier" /\ ~Found(variables, t.name)
             /\ NewTerm(Str("")) /\ Return(NextPointer)
    <2>1. WellFormed(Str("")) /\ Sound(Str(""), heap)
      BY ScriptAssumption DEF Str, WellFormed, Term, Sound
    <2> QED BY <1>1, <1>4, <1>6, <2>1, NewReturned
  <1>7. CASE t.kind = "fun" /\ Goto(Body(t)) /\ UNCHANGED <<heapVars, ret>>
    <2> DEFINE new == Body(t)
    <2>1. Begins(new)
      BY <1>2, <1>7, BodyBegins
    <2>2. Waits /\ frames' = new \o Tail(frames) /\ LivePointers' = LivePointers
      BY <1>7, QuietlyWaits DEF Goto, heapVars, LivePointers
    <2> HIDE DEF new
    <2>3. Pushed(new[Len(new)]) = <<>>
      BY <2>1 DEF Begins, Pushed, Enders, Pushers
    <2>4. ScriptInv'
      BY <1>1, <1>4, <2>1, <2>2, <2>3, CallsKeep DEF Begins
    <2> QED BY <1>7, <2>4 DEF Good
  <1>8. CASE /\ halted' = "stack"
             /\ UNCHANGED <<gen, heap, used, variables, collecting, oldHeap, oldVariables, scriptVars>>
    <2>1. HeapNext
      BY <1>1, <1>8 DEF HeapNext
    <2>2. HeapInv' /\ TermsSound' /\ LivePointers' = LivePointers
      BY <1>8, SameHeap DEF ScriptInv, LivePointers
    <2>3. ScriptTypes' /\ RetFits' /\ Bison'
      BY <1>8, <2>2 DEF ScriptInv, ScriptTypes, RetFits, IsString, Bison, scriptVars, parseVars
    <2> QED BY <1>8, <2>1, <2>2, <2>3 DEF ScriptInv, Good, scriptVars
  <1>9. CASE Return(p) /\ UNCHANGED heapVars
    BY <1>1, <1>2, <1>4, <1>9, OldReturned
  <1> QED BY <1>5, <1>6, <1>7, <1>8, <1>9 DEF RunResolve

LEMMA RunAssignKeeps == ASSUME ScriptInv, RunAssign PROVE Good
  <1> DEFINE top == Head(frames)
  <1>1. /\ halted = "no" /\ frames # <<>> /\ top \in Frame(LivePointers) /\ top.f = "assign"
        /\ ret \in LivePointers \cup {Null}
    BY RunningTop DEF RunAssign, Readers
  <1>2. top.name \in Names /\ SetVariable(top.name, ret)
    BY <1>1, FrameFields DEF RunAssign
  <1>3. /\ ret' = ret /\ frames' = <<>> \o Tail(frames)
        /\ UNCHANGED <<input, code, stack, env, parseVars>>
    BY DEF RunAssign, Return, Goto
  <1>4. HeapInv' /\ TermsSound' /\ Grows /\ HeapNext
    BY <1>1, <1>2, SetVariableKeeps DEF ScriptInv
  <1>5. frames' = Tail(frames)
    BY <1>1, <1>3, Dropped DEF ScriptInv, ScriptTypes
  <1>6. ret' \in LivePointers' \cup {Null}
    BY <1>1, <1>3, <1>4 DEF Grows
  <1>7. top.f \notin Pushers /\ top.f # "text"
    BY <1>1 DEF Enders, Pushers
  <1>8. Waits
    BY <1>3, <1>4, GotoWaits
  <1>9. ScriptInv'
    BY <1>1, <1>5, <1>6, <1>7, <1>8, ReturnKeeps
  <1> QED BY <1>4, <1>9 DEF Good

LEMMA RunLeftKeeps == ASSUME ScriptInv, RunLeft PROVE Good
  <1> DEFINE top == Head(frames)
             k == ToNumber(Deref(ret))
             a == Resolve(top.right)
             b == [f |-> "right", fun |-> top.fun, left |-> k]
  <1>1. /\ frames # <<>> /\ top \in Frame(LivePointers) /\ top.f = "left"
        /\ ret \in LivePointers
    BY RunningTop DEF RunLeft, Readers
  <1>2. top.right \in LivePointers /\ top.fun \in {"+", "-"} /\ k \in Ints
    BY <1>1, FrameFields, DerefIs DEF ScriptInv
  <1>3. a \in Frame(LivePointers) /\ b \in Frame(LivePointers)
    BY <1>2 DEF Frame, Resolve
  <1>4. a.f = "resolve" /\ b.f = "right"
    BY DEF Resolve
  <1>5. Waits /\ frames' = <<a, b>> \o Tail(frames) /\ LivePointers' = LivePointers
    BY QuietlyWaits DEF RunLeft, Goto, heapVars, LivePointers
  <1> HIDE DEF a, b
  <1>6. Like(b, top) /\ Follows(a, b) /\ a.f \notin Readers
    BY <1>1, <1>4 DEF Like, Pushed, Enders, Pushers, Follows, Readers, StringReaders
  <1>7. ScriptInv'
    BY <1>1, <1>3, <1>5, <1>6, CallsTwo
  <1> QED BY <1>7 DEF Good, RunLeft

LEMMA RunRightKeeps == ASSUME ScriptInv, RunRight PROVE Good
  <1> DEFINE top == Head(frames)
             x == top.left
             y == ToNumber(Deref(ret))
             k == Wrap(IF top.fun = "+" THEN x + y ELSE x - y)
  <1>1. /\ frames # <<>> /\ top \in Frame(LivePointers) /\ top.f = "right"
        /\ ret \in LivePointers
    BY RunningTop DEF RunRight, Readers
  <1>2. x \in Ints /\ y \in Ints
    BY <1>1, FrameFields, DerefIs DEF ScriptInv
  <1>3. k \in Ints /\ k \in Int
    <2>1. x \in Int /\ y \in Int
      BY <1>2, IntRange
    <2> HIDE DEF x, y
    <2>2. (IF top.fun = "+" THEN x + y ELSE x - y) \in Int
      BY <2>1
    <2> QED BY <2>2, IntRange
  <1>4. NewTerm(Num(k)) /\ Return(NextPointer)
    BY DEF RunRight
  <1> HIDE DEF k
  <1>5. WellFormed(Num(k)) /\ Sound(Num(k), heap)
    BY <1>3 DEF Num, WellFormed, Term, Sound
  <1>6. top.f \notin Pushers /\ top.f # "text"
    BY <1>1 DEF Enders, Pushers
  <1> QED BY <1>1, <1>4, <1>5, <1>6, NewReturned

LEMMA RunTextKeeps == ASSUME ScriptInv, RunText PROVE Good
  <1> DEFINE top == Head(frames)
             t == Deref(ret)
  <1>1. /\ frames # <<>> /\ top \in Frame(LivePointers) /\ top.f = "text"
        /\ ret \in LivePointers
    BY RunningTop DEF RunText, Readers
  <1>2. top.f \notin Pushers
    BY <1>1 DEF Enders, Pushers
  <1>3. t = heap[ret.at] /\ Text(t) \in Strings
    BY <1>1, LiveIs, DerefIs DEF ScriptInv, HeapInv
  <1>4. CASE t.kind = "string" /\ Goto(<<>>) /\ UNCHANGED <<heapVars, ret>>
    <2>1. IsString(ret) /\ Return(ret)
      BY <1>1, <1>3, <1>4 DEF IsString, Return
    <2> QED BY <1>1, <1>2, <1>4, <2>1, OldReturned
  <1>5. CASE Goto(<<Resolve(ret), ToStr>>) /\ UNCHANGED <<heapVars, ret>>
    <2> DEFINE a == Resolve(ret)
    <2>1. /\ a \in Frame(LivePointers) /\ ToStr \in Frame(LivePointers)
          /\ a.f = "resolve" /\ ToStr.f = "text"
      BY <1>1 DEF Frame, Resolve, ToStr
    <2>2. Waits /\ frames' = <<a, ToStr>> \o Tail(frames) /\ LivePointers' = LivePointers
      BY <1>5, QuietlyWaits DEF Goto, heapVars, LivePointers
    <2> HIDE DEF a
    <2>3. Like(ToStr, top) /\ Follows(a, ToStr) /\ a.f \notin Readers
      BY <1>1, <2>1 DEF Like, Pushed, Enders, Pushers, Follows, Readers, StringReaders
    <2>4. ScriptInv'
      BY <1>1, <2>1, <2>2, <2>3, CallsTwo
    <2> QED BY <1>5, <2>4 DEF Good
  <1>6. CASE NewTerm(Str(Text(t))) /\ Return(NextPointer)
    <2> DEFINE u == Str(Text(t))
    <2>1. WellFormed(u) /\ Sound(u, heap) /\ u.kind = "string"
      BY <1>3 DEF Str, WellFormed, Term, Sound
    <2> HIDE DEF u
    <2> QED BY <1>1, <1>2, <1>6, <2>1, NewReturned DEF u
  <1> QED BY <1>4, <1>5, <1>6 DEF RunText

LEMMA RunPrintKeeps == ASSUME ScriptInv, RunPrint PROVE Good
  <1> DEFINE top == Head(frames)
             rest == top.rest
  <1>1. frames # <<>> /\ top \in Frame(LivePointers) /\ top.f = "print"
    BY RunningTop DEF RunPrint
  <1>2. rest \in Seq(LivePointers) /\ UNCHANGED heapVars
    BY <1>1, FrameFields DEF RunPrint
  <1>3. CASE Return(Null)
    BY <1>1, <1>2, <1>3, OldReturned DEF Enders, Pushers
  <1>4. CASE rest # <<>> /\ Goto(<<Resolve(Head(rest)), ToStr, [f |-> "print", rest |-> Tail(rest)]>>)
    <2> DEFINE a == Resolve(Head(rest))
               c == [f |-> "print", rest |-> Tail(rest)]
    <2>1. Head(rest) \in LivePointers /\ Tail(rest) \in Seq(LivePointers)
      BY <1>2, <1>4, HeadTailProperties
    <2>2. a \in Frame(LivePointers) /\ ToStr \in Frame(LivePointers) /\ c \in Frame(LivePointers)
      <3>1. a \in Frame(LivePointers) /\ ToStr \in Frame(LivePointers)
        BY <2>1 DEF Frame, Resolve, ToStr
      <3>2. c \in [f : {"print"}, rest : Seq(LivePointers)]
        BY <2>1
      <3> HIDE DEF c
      <3> QED BY <3>1, <3>2 DEF Frame
    <2>3. a.f = "resolve" /\ ToStr.f = "text" /\ c.f = "print"
      BY DEF Resolve, ToStr
    <2>4. Waits /\ frames' = <<a, ToStr, c>> \o Tail(frames) /\ LivePointers' = LivePointers
      BY <1>2, <1>4, QuietlyWaits DEF Goto, heapVars, LivePointers
    <2> HIDE DEF a, c
    <2>5. Like(c, top) /\ Follows(a, ToStr) /\ Follows(ToStr, c) /\ a.f \notin Readers
      BY <1>1, <2>3 DEF Like, Pushed, Enders, Pushers, Follows, Readers, StringReaders
    <2>6. ScriptInv'
      BY <1>1, <2>2, <2>4, <2>5, CallsThree
    <2> QED BY <1>2, <2>6 DEF Good
  <1> QED BY <1>3, <1>4 DEF RunPrint

LEMMA RunGetenvKeeps == ASSUME ScriptInv, RunGetenv PROVE Good
  <1> DEFINE str == env[Deref(ret).string]
  <1>1. frames # <<>> /\ Head(frames).f = "getenv" /\ IsString(ret)
    BY RunningTop DEF RunGetenv, StringReaders
  <1>2. Deref(ret).string \in Strings
    BY <1>1, LiveIs, DerefIs DEF IsString, ScriptInv, HeapInv
  <1>3. str \in Strings
    BY <1>2 DEF ScriptInv, ScriptTypes
  <1>4. NewTerm(Str(str)) /\ Return(NextPointer)
    BY DEF RunGetenv
  <1> HIDE DEF str
  <1>5. WellFormed(Str(str)) /\ Sound(Str(str), heap)
    BY <1>3 DEF Str, WellFormed, Term, Sound
  <1> QED BY <1>1, <1>4, <1>5, NewReturned DEF Enders, Pushers

\* The value of the parameter is not known to be there before it has been a string.
LEMMA SetnameKeeps ==
    ASSUME ScriptInv, Running("setname"), UNCHANGED <<heapVars, ret>>,
           LET value == Head(frames).value
           IN Goto(<<Resolve(value), ToStr,
                     [f |-> "setenv", name |-> Deref(ret).string, value |-> value]>>)
    PROVE  Good
  <1> DEFINE top == Head(frames)
             name == Deref(ret).string
             a == Resolve(top.value)
             c == [f |-> "setenv", name |-> name, value |-> top.value]
  <1>1. /\ frames # <<>> /\ top \in Frame(LivePointers) /\ top.f = "setname" /\ IsString(ret)
    BY RunningTop DEF StringReaders
  <1>2. top.value \in LivePointers
    BY <1>1, FrameFields
  <1>3. name \in Strings
    BY <1>1, LiveIs, DerefIs DEF IsString, ScriptInv, HeapInv
  <1>4. Waits /\ frames' = <<a, ToStr, c>> \o Tail(frames) /\ LivePointers' = LivePointers
    BY QuietlyWaits DEF Goto, heapVars, LivePointers
  <1>5. a \in Frame(LivePointers) /\ ToStr \in Frame(LivePointers) /\ c \in Frame(LivePointers)
    <2>1. a \in Frame(LivePointers) /\ ToStr \in Frame(LivePointers)
      BY <1>2 DEF Frame, Resolve, ToStr
    <2> HIDE DEF name
    <2>2. c \in Frame(LivePointers)
      BY <1>2, <1>3 DEF Frame
    <2> QED BY <2>1, <2>2
  <1>6. a.f = "resolve" /\ ToStr.f = "text" /\ c.f = "setenv"
    BY DEF Resolve, ToStr
  <1> HIDE DEF a, c
  <1>7. Like(c, top) /\ Follows(a, ToStr) /\ Follows(ToStr, c) /\ a.f \notin Readers
    BY <1>1, <1>6 DEF Like, Pushed, Enders, Pushers, Follows, Readers, StringReaders
  <1>8. ScriptInv'
    BY <1>1, <1>4, <1>5, <1>7, CallsThree
  <1> QED BY <1>8 DEF Good

\* A flag is made that set_variable() will be given.
LEMMA FlagKeeps ==
    ASSUME ScriptInv, frames # <<>>, Head(frames).f \in {"setenv", "defaults"},
           NEW b \in BOOLEAN, NewTerm(Bool(b)), env' \in [Strings -> Strings],
           NEW q \in LivePointers \cup {Null},
           frames' = <<[f |-> "modified", ptr |-> NextPointer, value |-> q]>> \o Tail(frames),
           UNCHANGED <<input, code, stack, ret, parseVars>>
    PROVE  Good
  <1> DEFINE a == [f |-> "modified", ptr |-> NextPointer, value |-> q]
  <1>1. WellFormed(Bool(b)) /\ Sound(Bool(b), heap)
    BY DEF Bool, WellFormed, Term, Sound
  <1>2. /\ HeapInv' /\ TermsSound' /\ Grows /\ HeapNext
        /\ NextPointer \in LivePointers'
    BY <1>1, NewTermKeeps DEF ScriptInv
  <1>3. Waits
    BY <1>2 DEF Waits, parseVars
  <1>4. a \in Frame(LivePointers') /\ a.f = "modified"
    <2>1. q \in LivePointers' \cup {Null}
      BY <1>2 DEF Grows
    <2>2. \A p \in LivePointers' :
             [f |-> "modified", ptr |-> p, value |-> q] \in Frame(LivePointers')
      BY <2>1 DEF Frame
    <2> QED BY <1>2, <2>2
  <1>5. frames' = <<a>> \o Tail(frames)
    OBVIOUS
  <1> HIDE DEF a
  <1>6. Like(a, Head(frames)) /\ a.f \notin Readers
    BY <1>4 DEF Like, Pushed, Enders, Pushers, Readers, StringReaders
  <1>7. ScriptInv'
    BY <1>3, <1>4, <1>5, <1>6, CallsOne
  <1> QED BY <1>2, <1>7 DEF Good

LEMMA RunSetenvKeeps == ASSUME ScriptInv, RunSetenv PROVE Good
  <1> DEFINE top == Head(frames)
  <1>1. CASE /\ Running("setname") /\ UNCHANGED <<heapVars, ret>>
             /\ LET value == Head(frames).value
                IN Goto(<<Resolve(value), ToStr,
                          [f |-> "setenv", name |-> Deref(ret).string, value |-> value]>>)
    BY <1>1, SetnameKeeps
  <1>2. CASE /\ Running("setenv")
             /\ env' = [env EXCEPT ![top.name] = Deref(ret).string]
             /\ NewTerm(Bool(TRUE))
             /\ frames' = <<[f |-> "modified", ptr |-> NextPointer, value |-> top.value]>>
                              \o Tail(frames)
             /\ UNCHANGED <<input, code, stack, ret, parseVars>>
    <2>1. /\ frames # <<>> /\ top \in Frame(LivePointers) /\ top.f = "setenv" /\ IsString(ret)
      BY <1>2, RunningTop DEF StringReaders
    <2>2. Deref(ret).string \in Strings
      BY <2>1, LiveIs, DerefIs DEF IsString, ScriptInv, HeapInv
    <2>3. env' \in [Strings -> Strings]
      BY <1>2, <2>2 DEF ScriptInv, ScriptTypes
    <2>4. top.value \in LivePointers \cup {Null}
      BY <2>1, FrameFields
    <2> QED BY <1>2, <2>1, <2>3, <2>4, FlagKeeps
  <1>3. CASE /\ Running("modified")
             /\ SetVariable("modified", top.ptr)
             /\ Return(top.value)
    <2>1. /\ frames # <<>> /\ top \in Frame(LivePointers) /\ top.f = "modified"
      BY <1>3, RunningTop
    <2>2. top.ptr \in LivePointers /\ top.value \in LivePointers \cup {Null}
      BY <2>1, FrameFields
    <2>3. HeapInv' /\ TermsSound' /\ Grows /\ HeapNext
      BY <1>3, <2>2, SetVariableKeeps, ScriptAssumption DEF ScriptInv
    <2>4. /\ ret' = top.value /\ frames' = <<>> \o Tail(frames)
          /\ UNCHANGED <<input, code, stack, env, parseVars>>
      BY <1>3 DEF Return, Goto
    <2>5. frames' = Tail(frames)
      BY <2>1, <2>4, Dropped DEF ScriptInv, ScriptTypes
    <2>6. ret' \in LivePointers' \cup {Null}
      BY <2>2, <2>3, <2>4 DEF Grows
    <2>7. top.f \notin Pushers /\ top.f # "text"
      BY <2>1 DEF Enders, Pushers
    <2>8. Waits
      BY <2>3, <2>4, GotoWaits
    <2>9. ScriptInv'
      BY <2>1, <2>5, <2>6, <2>7, <2>8, ReturnKeeps
    <2> QED BY <2>3, <2>9 DEF Good
  <1> QED BY <1>1, <1>2, <1>3 DEF RunSetenv

LEMMA SetDefaultsKeeps == ASSUME ScriptInv, SetDefaults PROVE Good
  <1>1. frames # <<>> /\ Head(frames).f = "defaults"
    BY RunningTop DEF SetDefaults
  <1>2. NewTerm(Bool(FALSE)) /\ FALSE \in BOOLEAN /\ Null \in LivePointers \cup {Null}
    BY DEF SetDefaults
  <1>3. /\ frames' = <<[f |-> "modified", ptr |-> NextPointer, value |-> Null]>> \o Tail(frames)
        /\ UNCHANGED <<input, code, stack, ret, parseVars>>
        /\ env' \in [Strings -> Strings]
    BY DEF SetDefaults, ScriptInv, ScriptTypes
  <1> QED BY <1>1, <1>2, <1>3, FlagKeeps

LEMMA RunSleepKeeps == ASSUME ScriptInv, RunSleep PROVE Good
  <1>1. frames # <<>> /\ Head(frames).f = "sleep"
    BY RunningTop DEF RunSleep
  <1>2. UNCHANGED heapVars /\ Return(Null)
    BY DEF RunSleep
  <1> QED BY <1>1, <1>2, OldReturned DEF Enders, Pushers

LEMMA RunVarsKeeps == ASSUME ScriptInv, RunVars PROVE Good
  <1>1. frames # <<>> /\ Head(frames).f = "vars"
    BY RunningTop DEF RunVars
  <1>2. UNCHANGED heapVars /\ Return(Null)
    BY DEF RunVars
  <1> QED BY <1>1, <1>2, OldReturned DEF Enders, Pushers

\* The last of the functions is done.
LEMMA ChainNone == Chain(<<>>)
  <1>1. Len(<<>>) = 0
    OBVIOUS
  <1>2. 1 .. 0 - 1 = {}
    OBVIOUS
  <1> QED BY <1>1, <1>2 DEF Chain

\* A function that has no caller returns.
LEMMA LastReturns ==
    ASSUME ScriptInv, Waits, frames # <<>>,
           Head(frames).f \in {"result", "no result", "shown"},
           frames' = Tail(frames)
    PROVE  ScriptInv'
  <1>1. Head(frames) = frames[1]
    BY TopFrame DEF ScriptInv
  <1>2. /\ Head(frames).f \in Enders /\ Pushed(Head(frames)) = <<>>
    BY DEF Enders, Pushed, Pushers
  <1>3. frames' = <<>> /\ Pending(frames) = <<>>
    BY <1>1, <1>2, Dropped DEF ScriptInv, ScriptTypes
  <1>4. frames' \in Seq(Frame(LivePointers')) /\ Pending(frames') = <<>>
    BY <1>3, EmptySeq DEF Pending
  <1>5. ScriptTypes' /\ Bison'
    BY <1>3, <1>4, WaitingTypes, WaitingBison DEF ScriptInv
  <1>6. Chain(frames')
    BY <1>3, ChainNone
  <1>7. RetFits'
    BY <1>3, Zenon DEF RetFits
  <1> QED BY <1>5, <1>6, <1>7 DEF ScriptInv, Waits

LEMMA RunShownKeeps == ASSUME ScriptInv, RunShown PROVE Good
  <1>1. frames # <<>> /\ Head(frames).f = "shown"
    BY RunningTop DEF RunShown
  <1>2. /\ UNCHANGED heapVars /\ frames' = <<>> \o Tail(frames)
        /\ UNCHANGED <<input, code, stack, env, parseVars>>
    BY DEF RunShown, Goto
  <1>3. frames' = Tail(frames)
    BY <1>1, <1>2, Dropped DEF ScriptInv, ScriptTypes
  <1>4. ScriptInv'
    BY <1>1, <1>2, <1>3, QuietlyWaits, LastReturns
  <1> QED BY <1>2, <1>4 DEF Good

LEMMA RunResultKeeps == ASSUME ScriptInv, RunResult PROVE Good
  <1>1. PICK f \in {"result", "no result"} :
            /\ Running(f)
            /\ result' = IF f = "result" THEN ret ELSE Null
            /\ frames' = Tail(frames)
            /\ UNCHANGED <<heapVars, input, code, stack, ret, env, parsing, typed, evals>>
    BY DEF RunResult
  <1>2. /\ halted = "no" /\ frames # <<>> /\ Head(frames).f = f
        /\ f = "result" => ret \in LivePointers \cup {Null}
    BY <1>1, RunningTop DEF Readers
  <1>3. HeapInv' /\ TermsSound' /\ Grows
    BY <1>1, <1>2, SameHeap DEF ScriptInv, heapVars
  <1>4. result' \in LivePointers \cup {Null}
    BY <1>1, <1>2
  <1>5. Waits
    BY <1>1, <1>3, <1>4 DEF Waits, ScriptInv, ScriptTypes
  <1>6. ScriptInv'
    BY <1>1, <1>2, <1>5, LastReturns
  <1> QED BY <1>1, <1>6 DEF Good

LEMMA RunConditionKeeps == ASSUME ScriptInv, RunCondition PROVE Good
  <1> DEFINE top == Head(frames)
             t == Deref(ret)
  <1>1. CASE /\ Running("bool") /\ ret # Null
             /\ Push([bool |-> ToBoolean(t)]) /\ UNCHANGED heapVars
    <2> DEFINE v == [bool |-> ToBoolean(t)]
    <2>1. /\ halted = "no" /\ frames # <<>> /\ top.f = "bool"
      BY <1>1, RunningTop
    <2>2. HeapInv' /\ TermsSound' /\ Grows
      BY <1>1, <2>1, SameHeap DEF ScriptInv, heapVars
    <2>3. /\ stack' = Append(stack, v) /\ frames' = Tail(frames)
          /\ UNCHANGED <<input, code, env, result, parsing>>
      BY <1>1 DEF Push, parseVars
    <2>4. top.f \in Pushers /\ Pushed(top) = <<"boolean">> /\ "boolean" \in Symbols
      BY <2>1 DEF Pushers, Pushed, Symbols
    <2>5. Is(v, "boolean", LivePointers', heap')
      <3>1. ToBoolean(t) \in BOOLEAN
        BY DEF ToBoolean
      <3> HIDE DEF t
      <3> QED BY <3>1 DEF Is
    <2> HIDE DEF v
    <2>6. ScriptInv'
      BY <2>1, <2>2, <2>3, <2>4, <2>5, PushKeeps
    <2> QED BY <1>1, <2>6 DEF Good
  <1>2. CASE /\ Running("neg") /\ ret # Null
             /\ NewTerm(Num(Wrap(-ToNumber(t)))) /\ Push([ptr |-> NextPointer])
    <2> DEFINE k == Wrap(-ToNumber(t))
               v == [ptr |-> NextPointer]
    <2>1. /\ frames # <<>> /\ top.f = "neg" /\ ret \in LivePointers
      BY <1>2, RunningTop DEF Readers
    <2>2. k \in Ints /\ k \in Int
      <3>1. ToNumber(t) \in Int
        BY <2>1, DerefIs, IntRange DEF ScriptInv
      <3> HIDE DEF t
      <3>2. -ToNumber(t) \in Int
        BY <3>1
      <3> QED BY <3>2, IntRange
    <2>3. NewTerm(Num(k))
      BY <1>2
    <2> HIDE DEF k
    <2>4. WellFormed(Num(k)) /\ Sound(Num(k), heap)
      BY <2>2 DEF Num, WellFormed, Term, Sound
    <2>5. /\ HeapInv' /\ TermsSound' /\ Grows /\ HeapNext
          /\ NextPointer \in LivePointers' /\ heap'[NextPointer.at] = Num(k)
      BY <2>3, <2>4, NewTermKeeps DEF ScriptInv
    <2>6. /\ stack' = Append(stack, v) /\ frames' = Tail(frames)
          /\ UNCHANGED <<input, code, env, result, parsing>>
      BY <1>2 DEF Push, parseVars
    <2>7. top.f \in Pushers /\ Pushed(top) = <<"term">> /\ "term" \in Symbols
      BY <2>1 DEF Pushers, Pushed, Symbols
    <2>8. Is(v, "term", LivePointers', heap')
      BY <2>5, PointerOf DEF Num, HasResult
    <2> HIDE DEF v
    <2>9. ScriptInv'
      BY <2>1, <2>5, <2>6, <2>7, <2>8, PushKeeps
    <2> QED BY <2>5, <2>9 DEF Good
  <1> QED BY <1>1, <1>2 DEF RunCondition

LEMMA RunCompareKeeps == ASSUME ScriptInv, RunCompare PROVE Good
  <1> DEFINE top == Head(frames)
  <1>1. CASE /\ Running("cmp") /\ UNCHANGED <<heapVars, ret>>
             /\ Goto(<<Resolve(top.right), [f |-> "compare", rel |-> top.rel, left |-> ret]>>)
    <2> DEFINE a == Resolve(top.right)
               b == [f |-> "compare", rel |-> top.rel, left |-> ret]
    <2>1. /\ frames # <<>> /\ top \in Frame(LivePointers) /\ top.f = "cmp"
          /\ ret \in LivePointers \cup {Null}
      BY <1>1, RunningTop DEF Readers
    <2>2. top.right \in LivePointers /\ top.rel \in Rels
      BY <2>1, FrameFields
    <2>3. a \in Frame(LivePointers) /\ b \in Frame(LivePointers)
      BY <2>1, <2>2 DEF Frame, Resolve
    <2>4. a.f = "resolve" /\ b.f = "compare"
      BY DEF Resolve
    <2>5. Waits /\ frames' = <<a, b>> \o Tail(frames) /\ LivePointers' = LivePointers
      BY <1>1, QuietlyWaits DEF Goto, heapVars, LivePointers
    <2> HIDE DEF a, b
    <2>6. Like(b, top) /\ Follows(a, b) /\ a.f \notin Readers
      BY <2>1, <2>4 DEF Like, Pushed, Pushers, Enders, Follows, Readers, StringReaders
    <2>7. ScriptInv'
      BY <2>1, <2>3, <2>5, <2>6, CallsTwo
    <2> QED BY <1>1, <2>7 DEF Good
  <1>2. CASE /\ Running("compare") /\ UNCHANGED heapVars
             /\ \E sign \in Compared(top.left, ret) : Push([bool |-> Holds(top.rel, sign)])
    <2>1. /\ halted = "no" /\ frames # <<>> /\ top \in Frame(LivePointers) /\ top.f = "compare"
      BY <1>2, RunningTop
    <2>2. PICK sign : Push([bool |-> Holds(top.rel, sign)])
      BY <1>2
    <2> DEFINE v == [bool |-> Holds(top.rel, sign)]
    <2>3. HeapInv' /\ TermsSound' /\ Grows
      BY <1>2, <2>1, SameHeap DEF ScriptInv, heapVars
    <2>4. /\ stack' = Append(stack, v) /\ frames' = Tail(frames)
          /\ UNCHANGED <<input, code, env, result, parsing>>
      BY <2>2 DEF Push, parseVars
    <2>5. top.f \in Pushers /\ Pushed(top) = <<"boolean">> /\ "boolean" \in Symbols
      BY <2>1 DEF Pushers, Pushed, Symbols
    <2>6. Is(v, "boolean", LivePointers', heap')
      <3>1. Holds(top.rel, sign) \in BOOLEAN
        BY DEF Holds
      <3> HIDE DEF top
      <3> QED BY <3>1 DEF Is
    <2> HIDE DEF v
    <2>7. ScriptInv'
      BY <2>1, <2>3, <2>4, <2>5, <2>6, PushKeeps
    <2> QED BY <1>2, <2>7 DEF Good
  <1> QED BY <1>1, <1>2 DEF RunCompare

\* What ends PID 1 leaves everything else as it is.
LEMMA EndedKeeps ==
    ASSUME ScriptInv, halted = "no", halted' \in {"null", "stack", "off"},
           UNCHANGED <<gen, heap, used, variables, collecting, oldHeap, oldVariables, scriptVars>>
    PROVE  Good
  <1>1. HeapNext
    BY DEF HeapNext
  <1>2. HeapInv' /\ TermsSound' /\ LivePointers' = LivePointers
    BY SameHeap DEF ScriptInv, LivePointers
  <1>3. ScriptTypes' /\ RetFits' /\ Bison'
    BY <1>2 DEF ScriptInv, ScriptTypes, RetFits, IsString, Bison, scriptVars, parseVars
  <1> QED BY <1>1, <1>2, <1>3 DEF ScriptInv, Good, scriptVars

LEMMA RunPoweroffKeeps == ASSUME ScriptInv, RunPoweroff PROVE Good
  <1>1. halted = "no"
    BY DEF RunPoweroff, Running
  <1> QED BY <1>1, EndedKeeps DEF RunPoweroff

LEMMA BadPointerKeeps == ASSUME ScriptInv, BadPointer PROVE Good
  BY EndedKeeps DEF BadPointer, NullDeref

-----------------------------------------------------------------------------
(* The theorems.                                                           *)

\* The interpreter waits.
LEMMA StutterKeeps == ASSUME ScriptInv, UNCHANGED vars PROVE Good
  <1>1. UNCHANGED heapVars /\ UNCHANGED <<input, code, stack, frames, ret, env, result, parsing>>
    BY DEF vars, scriptVars, parseVars
  <1>2. halted \in {"no", "out_of_heap", "null", "stack", "off"}
    BY DEF ScriptInv, HeapInv, HeapTypeOK
  <1>3. HeapInv' /\ TermsSound' /\ LivePointers' = LivePointers
    BY <1>1, <1>2, SameHeap DEF ScriptInv, heapVars, LivePointers
  <1>4. ScriptTypes' /\ RetFits' /\ Bison'
    BY <1>1, <1>3 DEF heapVars, ScriptInv, ScriptTypes, RetFits, IsString, Bison
  <1> QED BY <1>1, <1>3, <1>4 DEF ScriptInv, Good

\* Every action of the interpreter keeps the invariant and is a step of ScriptHeap.
LEMMA NextKeeps == ASSUME ScriptInv, Next PROVE Good
  <1>1. ASSUME Run PROVE Good
    BY <1>1, RunResolveKeeps, RunAssignKeeps, RunLeftKeeps, RunRightKeeps, RunTextKeeps,
       RunPrintKeeps, RunGetenvKeeps, RunSetenvKeeps, RunSleepKeeps, RunVarsKeeps,
       RunPoweroffKeeps, RunResultKeeps, RunShownKeeps, RunConditionKeeps, RunCompareKeeps,
       BadPointerKeeps, SetDefaultsKeeps
       DEF Run
  <1>2. ASSUME Ended PROVE Good
    <2>1. UNCHANGED vars
      BY <1>2 DEF Ended
    <2> QED BY <2>1, StutterKeeps
  <1> QED BY <1>1, <1>2, ShiftKeeps, NewFunKeeps, LogicKeeps, EvaluateKeeps, SyntaxErrorKeeps,
             NextStatementKeeps, EndOfInputKeeps, EvalKeeps, CollectKeeps
             DEF Next

\* At any time, in any script: a function's arguments and result, bison's values and the
\* value to print lead to terms of the heap in use, to a string or an identifier where
\* the code takes one without looking, and calls have the parameters they read.
THEOREM ScriptInvAlways == Spec => []ScriptInv
  <1>1. Init => ScriptInv
    <2> SUFFICES ASSUME Init PROVE ScriptInv
      OBVIOUS
    <2>1. HeapInv
      BY HeapInitInv DEF Init
    <2>2. frames = <<[f |-> "defaults"]>> /\ stack = <<>> /\ code = <<>> /\ ~parsing
      BY DEF Init
    <2>3. ScriptTypes
      <3>1. [f |-> "defaults"] \in Frame(LivePointers)
        BY DEF Frame
      <3>2. frames \in Seq(Frame(LivePointers))
        BY <2>2, <3>1
      <3>3. stack \in Seq(Entry(LivePointers)) /\ input \in Seq(AllStatements)
        BY <2>2, EmptySeq DEF Init
      <3>4. env \in [Strings -> Strings] /\ parsing \in BOOLEAN
        BY ScriptAssumption DEF Init
      <3> QED BY <2>2, <3>2, <3>3, <3>4 DEF ScriptTypes
    <2>4. TermsSound
      <3>1. heap = <<>> /\ oldHeap = <<>>
        BY DEF Init, HeapInit
      <3>2. 1 .. Len(heap) = {} /\ 1 .. Len(oldHeap) = {}
        BY <3>1
      <3> QED BY <3>2 DEF TermsSound
    <2>5. Chain(frames) /\ RetFits /\ Pending(frames) = <<>>
      <3>1. Len(frames) = 1 /\ frames[1] = [f |-> "defaults"] /\ Head(frames) = frames[1] /\ frames # <<>>
        BY <2>2
      <3> QED BY <3>1 DEF Chain, RetFits, Readers, StringReaders, Pending, Pushed, Pushers
    <2>6. Bison
      BY <2>2, <2>5 DEF Bison
    <2> QED BY <2>1, <2>3, <2>4, <2>5, <2>6 DEF ScriptInv
  <1>2. ScriptInv /\ [Next]_vars => ScriptInv'
    BY NextKeeps, StutterKeeps DEF Good
  <1> QED BY <1>1, <1>2, PTL DEF Spec

\* For any scripts: whatever the interpreter does to its memory, ScriptHeap allows.
THEOREM HeapSpecAlways == Spec => HeapSpec
  <1>1. Init => HeapInit
    BY DEF Init
  <1>2. ScriptInv /\ [Next]_vars => [HeapNext]_heapVars
    BY NextKeeps, StutterKeeps DEF Good
  <1> QED BY <1>1, <1>2, ScriptInvAlways, PTL DEF Spec, HeapSpec

\* For any scripts, in the interpreter: variables are a map from names to values, in spite of
\* shared terms and of collections.
THEOREM ScriptKeepsVariables == Spec => KeepsVariables
  BY HeapSpecAlways, KeepsVariablesAlways, PTL

\* For any scripts, in the interpreter: no variable and no term leads into a freed heap,
\* and the list has every name once.
THEOREM ScriptNoDangling == Spec => [](NoDangling /\ NamedOnce)
  BY HeapSpecAlways, NoDanglingAlways, NamedOnceAlways, PTL

-----------------------------------------------------------------------------
(* Careful scripts: those that use no result of a function that has none.  *)
(* What they leave in variables, and what their functions are given, is a  *)
(* string, a number or a boolean, and so they reach a NULL pointer nowhere *)
(* but in term_compare(), which is given terms of two kinds.               *)

Plain(t) == t.kind \in {"string", "number", "boolean"}

\* Pointers to plain values, and to what has one when it is resolved.
PlainValues == {p \in LivePointers : Plain(heap[p.at])}
Resolvable == {p \in LivePointers : HasResult(heap[p.at])}

\* Functions that take what the one before has returned and do not expect NULL.
Needs == {"assign", "left", "right", "text", "sleep", "bool", "neg", "cmp", "compare"}

\* What returns a plain value, or has others return it, when what is in R can be resolved.
Gives(fr, R) ==
    (fr.f = "resolve" /\ fr.ptr \in R) \/ fr.f \in {"assign", "left", "right", "text", "getenv"}

\* What a function keeps for later are values in V or can be resolved to them.
Neat(fr, R, V) ==
    /\ fr.f = "resolve" => fr.ptr # Null
    /\ fr.f \in {"left", "cmp"} => fr.right \in R
    /\ fr.f \in {"setname", "setenv"} => fr.value \in R
    /\ fr.f = "modified" => fr.ptr \in V /\ fr.value \in R \cup {Null}
    /\ fr.f = "print" => \A i \in 1 .. Len(fr.rest) : fr.rest[i] \in R
    /\ fr.f = "compare" => fr.left \in V

NeatFrames(fs, R, V) ==
    /\ \A i \in 1 .. Len(fs) : Neat(fs[i], R, V)
    /\ \A i \in 1 .. Len(fs) - 1 : fs[i + 1].f \in Needs => Gives(fs[i], R)

\* A function on top of the stack that takes p.
Takes(fr, p, R, V) ==
    /\ fr.f \in Needs => p \in V
    /\ fr.f = "result" => p \in R \cup {Null}

\* The parameters of a call can be resolved, and sleep() has its number.
CleanTerm(t, R) ==
    t.kind = "fun" =>
        /\ \A j \in 1 .. Len(t.params) : t.params[j] \in R
        /\ t.fun = "sleep" => Len(t.params) > 0

CleanHeap ==
    /\ \A i \in 1 .. Len(variables) : variables[i].value \in PlainValues
    /\ \A i \in 1 .. Len(oldVariables) :
           LET p == oldVariables[i].value IN p # Null /\ Plain(oldHeap[p.at])
    /\ \A i \in 1 .. Len(heap) : CleanTerm(heap[i], Resolvable)

CleanFrames ==
    /\ NeatFrames(frames, Resolvable, PlainValues)
    /\ frames # <<>> => Takes(Head(frames), ret, Resolvable, PlainValues)

CleanInv ==
    CleanHeap /\ CleanFrames /\ (parsing => result \in Resolvable \cup {Null})

\* Careful scripts: PID 1 is killed by a pointer that is none only if it compares a string
\* with something else (script.c:250-274).
NullOnlyInCompare ==
    halted = "null" =>
        /\ frames # <<>> /\ Head(frames).f = "compare"
        /\ Deref(Head(frames).left).kind = "string" /\ Deref(ret).kind # "string"

\* What is still live stays what it was.
Remain == Resolvable \subseteq Resolvable' /\ PlainValues \subseteq PlainValues'

LEMMA GrowsRemain == ASSUME Grows PROVE Remain
  BY DEF Grows, Remain, Resolvable, PlainValues

LEMMA PlainResolves ==
    /\ PlainValues \subseteq Resolvable
    /\ (PlainValues \subseteq Resolvable)'
  BY DEF PlainValues, Resolvable, Plain, HasResult

LEMMA NeatGrows ==
    ASSUME NEW R, NEW V, NEW R2, NEW V2, R \subseteq R2, V \subseteq V2
    PROVE  /\ \A fr : Neat(fr, R, V) => Neat(fr, R2, V2)
           /\ \A fr : Gives(fr, R) => Gives(fr, R2)
           /\ \A fs : NeatFrames(fs, R, V) => NeatFrames(fs, R2, V2)
  <1>1. \A fr : Neat(fr, R, V) => Neat(fr, R2, V2)
    BY DEF Neat
  <1>2. \A fr : Gives(fr, R) => Gives(fr, R2)
    BY DEF Gives
  <1> QED BY <1>1, <1>2 DEF NeatFrames

LEMMA NeatOne == ASSUME NEW R, NEW V, NEW a, Neat(a, R, V) PROVE NeatFrames(<<a>>, R, V)
  BY DEF NeatFrames

LEMMA NeatTwo ==
    ASSUME NEW R, NEW V, NEW a, NEW b, Neat(a, R, V), Neat(b, R, V), b.f \in Needs => Gives(a, R)
    PROVE  NeatFrames(<<a, b>>, R, V)
  <1>1. Len(<<a, b>>) = 2 /\ <<a, b>>[1] = a /\ <<a, b>>[2] = b
    OBVIOUS
  <1>2. \A i \in 1 .. 2 : i = 1 \/ i = 2
    OBVIOUS
  <1>3. \A i \in 1 .. 2 - 1 : i = 1
    OBVIOUS
  <1> QED BY <1>1, <1>2, <1>3 DEF NeatFrames

LEMMA NeatThree ==
    ASSUME NEW R, NEW V, NEW a, NEW b, NEW c,
           Neat(a, R, V), Neat(b, R, V), Neat(c, R, V),
           b.f \in Needs => Gives(a, R), c.f \in Needs => Gives(b, R)
    PROVE  NeatFrames(<<a, b, c>>, R, V)
  <1> DEFINE s == <<a, b, c>>
  <1>1. Len(s) = 3 /\ s[1] = a /\ s[2] = b /\ s[3] = c
    OBVIOUS
  <1> HIDE DEF s
  <1>2. \A i \in 1 .. 3 : i = 1 \/ i = 2 \/ i = 3
    OBVIOUS
  <1>3. \A i \in 1 .. 3 - 1 : i = 1 \/ i = 2
    OBVIOUS
  <1>4. 1 + 1 = 2 /\ 2 + 1 = 3
    OBVIOUS
  <1> QED BY <1>1, <1>2, <1>3, <1>4 DEF NeatFrames, s

\* A function calls others in its place, and what comes last gives what it would have.
LEMMA NeatReplaced ==
    ASSUME NEW S, NEW R, NEW V, NEW fs \in Seq(S), fs # <<>>, NeatFrames(fs, R, V),
           NEW R2, NEW V2, R \subseteq R2, V \subseteq V2,
           NEW new \in Seq(S), new # <<>>, NeatFrames(new, R2, V2),
           Gives(fs[1], R) => Gives(new[Len(new)], R2)
    PROVE  NeatFrames(new \o Tail(fs), R2, V2)
  <1> DEFINE n == Len(new)
             m == Len(fs)
             all == new \o Tail(fs)
  <1>1. n \in Nat \ {0} /\ m \in Nat \ {0}
    BY EmptySeq
  <1>2. Tail(fs) \in Seq(S) /\ Len(Tail(fs)) = m - 1 /\ \A i \in 1 .. m - 1 : Tail(fs)[i] = fs[i + 1]
    BY HeadTailProperties
  <1>3. /\ all \in Seq(S) /\ Len(all) = n + m - 1
        /\ \A i \in 1 .. n + m - 1 : all[i] = IF i <= n THEN new[i] ELSE Tail(fs)[i - n]
    <2>1. n + (m - 1) = n + m - 1
      BY <1>1
    <2> QED BY <1>2, <2>1, ConcatProperties
  <1> HIDE DEF all
  <1>4. \A i \in 1 .. n : all[i] = new[i]
    BY <1>1, <1>3
  <1>5. \A i \in n + 1 .. n + m - 1 : i - n + 1 \in 1 .. m /\ all[i] = fs[i - n + 1]
    <2> SUFFICES ASSUME NEW i \in n + 1 .. n + m - 1
                 PROVE  i - n + 1 \in 1 .. m /\ all[i] = fs[i - n + 1]
      OBVIOUS
    <2>1. /\ i \in 1 .. n + m - 1 /\ ~(i <= n) /\ i - n \in 1 .. m - 1
          /\ i - n + 1 \in 1 .. m
      BY <1>1
    <2> QED BY <1>2, <1>3, <2>1
  <1>6. \A i \in 1 .. n + m - 1 : Neat(all[i], R2, V2)
    <2> SUFFICES ASSUME NEW i \in 1 .. n + m - 1 PROVE Neat(all[i], R2, V2)
      OBVIOUS
    <2>1. i \in 1 .. n \/ i \in n + 1 .. n + m - 1
      BY <1>1
    <2>2. ASSUME NEW k \in 1 .. m PROVE Neat(fs[k], R2, V2)
      BY NeatGrows DEF NeatFrames
    <2> QED BY <1>4, <1>5, <2>1, <2>2 DEF NeatFrames
  <1>7. ASSUME NEW i \in 1 .. n + m - 2, all[i + 1].f \in Needs PROVE Gives(all[i], R2)
    <2>1. CASE i < n
      <3>1. i \in 1 .. n - 1 /\ i \in 1 .. n /\ i + 1 \in 1 .. n
        BY <1>1, <2>1
      <3> QED BY <1>4, <1>7, <3>1 DEF NeatFrames
    <2>2. CASE i = n
      <3>1. i \in 1 .. n /\ i + 1 \in n + 1 .. n + m - 1 /\ (i + 1) - n + 1 = 2 /\ 1 \in 1 .. m - 1
        BY <1>1, <2>2
      <3>2. all[i] = new[n] /\ all[i + 1] = fs[2] /\ 1 + 1 = 2
        BY <1>4, <1>5, <2>2, <3>1
      <3>3. fs[1 + 1].f \in Needs => Gives(fs[1], R)
        BY <3>1 DEF NeatFrames
      <3> QED BY <1>7, <3>2, <3>3
    <2>3. CASE i > n
      <3>1. /\ i \in n + 1 .. n + m - 1 /\ i + 1 \in n + 1 .. n + m - 1
            /\ i - n + 1 \in 1 .. m - 1 /\ (i + 1) - n + 1 = (i - n + 1) + 1
        BY <1>1, <2>3
      <3>2. all[i] = fs[i - n + 1] /\ all[i + 1] = fs[(i - n + 1) + 1]
        BY <1>5, <3>1
      <3>3. fs[(i - n + 1) + 1].f \in Needs => Gives(fs[i - n + 1], R)
        BY <3>1 DEF NeatFrames
      <3> QED BY <1>7, <3>2, <3>3, NeatGrows
    <2> QED BY <1>1, <2>1, <2>2, <2>3
  <1>8. Len(all) - 1 = n + m - 2
    BY <1>1, <1>3
  <1>9. NeatFrames(all, R2, V2)
    <2> HIDE DEF n, m
    <2> QED BY <1>3, <1>6, <1>7, <1>8 DEF NeatFrames
  <1> QED BY <1>9 DEF all

\* A function returns to one that may need what it has given.
LEMMA NeatDropped ==
    ASSUME NEW S, NEW R, NEW V, NEW fs \in Seq(S), fs # <<>>, NeatFrames(fs, R, V)
    PROVE  /\ NeatFrames(Tail(fs), R, V)
           /\ Tail(fs) # <<>> => (Tail(fs)[1].f \in Needs => Gives(fs[1], R))
  <1> DEFINE m == Len(fs)
             t == Tail(fs)
  <1>1. m \in Nat \ {0}
    BY EmptySeq
  <1>2. t \in Seq(S) /\ Len(t) = m - 1 /\ \A i \in 1 .. m - 1 : t[i] = fs[i + 1]
    BY HeadTailProperties
  <1> HIDE DEF t
  <1>3. \A i \in 1 .. m - 1 : i + 1 \in 1 .. m
    BY <1>1
  <1>4. \A i \in 1 .. m - 2 : i \in 1 .. m - 1 /\ i + 1 \in 1 .. m - 1
    BY <1>1
  <1>5. (m - 1) - 1 = m - 2
    BY <1>1
  <1>6. NeatFrames(t, R, V)
    <2>1. \A i \in 1 .. Len(t) : Neat(t[i], R, V)
      BY <1>2, <1>3 DEF NeatFrames
    <2>2. \A i \in 1 .. Len(t) - 1 : t[i + 1].f \in Needs => Gives(t[i], R)
      BY <1>2, <1>4, <1>5 DEF NeatFrames
    <2> QED BY <2>1, <2>2 DEF NeatFrames
  <1>7. ASSUME t # <<>>, t[1].f \in Needs PROVE Gives(fs[1], R)
    <2>1. Len(t) # 0
      BY <1>2, <1>7, EmptySeq
    <2>2. 1 \in 1 .. m - 1
      BY <1>1, <1>2, <2>1
    <2>3. fs[1 + 1].f \in Needs
      BY <1>2, <1>7, <2>2
    <2> QED BY <2>2, <2>3 DEF NeatFrames
  <1> QED BY <1>6, <1>7 DEF t

\* A new term of which all parameters can be resolved.
LEMMA CleanNewTerm ==
    ASSUME ScriptInv, CleanHeap, NEW t, CleanTerm(t, Resolvable), NewTerm(t)
    PROVE  /\ CleanHeap' /\ Remain
           /\ HasResult(t) => NextPointer \in Resolvable'
           /\ Plain(t) => NextPointer \in PlainValues'
  <1> DEFINE T == Term \cup {t}
  <1>1. /\ heap \in Seq(T) /\ t \in T /\ Len(heap) \in Nat /\ gen \in Nat
        /\ heap' = Append(heap, t)
        /\ UNCHANGED <<gen, variables, oldHeap, oldVariables>>
    <2>1. heap \in Seq(Term) /\ Term \subseteq T
      BY DEF ScriptInv, HeapInv, HeapTypeOK
    <2>2. heap \in Seq(T)
      <3> HIDE DEF T
      <3> QED BY <2>1, SeqMonotonic
    <2> QED BY <2>2 DEF ScriptInv, HeapInv, HeapTypeOK, NewTerm
  <1> HIDE DEF T
  <1>2. /\ Len(heap') = Len(heap) + 1 /\ heap'[Len(heap) + 1] = t
        /\ \A i \in 1 .. Len(heap) : heap'[i] = heap[i]
        /\ \A i \in 1 .. Len(heap') : heap'[i] = t \/ \E j \in 1 .. Len(heap) : heap'[i] = heap[j]
    BY <1>1
  <1>3. Grows /\ NextPointer \in LivePointers' /\ heap'[NextPointer.at] = t
    BY <1>1, <1>2 DEF Grows, LivePointers, NextPointer
  <1>4. Remain
    BY <1>3, GrowsRemain
  <1>5. \A u : CleanTerm(u, Resolvable) => CleanTerm(u, Resolvable')
    BY <1>4 DEF Remain, CleanTerm
  <1>6. \A i \in 1 .. Len(heap') : CleanTerm(heap'[i], Resolvable')
    BY <1>2, <1>5 DEF CleanHeap
  <1>7. CleanHeap'
    BY <1>1, <1>4, <1>6 DEF CleanHeap, Remain
  <1> QED BY <1>3, <1>4, <1>7 DEF Resolvable, PlainValues

\* A variable is set to a plain value.
LEMMA CleanSetVariable ==
    ASSUME ScriptInv, CleanHeap, NEW n \in Names, NEW p \in PlainValues, SetVariable(n, p)
    PROVE  CleanHeap' /\ Remain
  <1>1. UNCHANGED <<gen, heap, oldHeap, oldVariables>> /\ variables' = Updated(variables, n, p)
    BY DEF SetVariable
  <1>2. Resolvable' = Resolvable /\ PlainValues' = PlainValues
    BY <1>1 DEF Resolvable, PlainValues, LivePointers
  <1>3. variables \in Seq(Variable) /\ Once(variables) /\ p \in Pointer
    BY LiveIs DEF ScriptInv, HeapInv, HeapTypeOK, NamedOnce, Once, PlainValues, Live
  <1>4. \A i \in 1 .. Len(variables') :
            \/ variables'[i] = [name |-> n, value |-> p]
            \/ \E j \in 1 .. Len(variables) : variables'[i] = variables[j]
    <2> DEFINE new == Updated(variables, n, p)
    <2>1. \A i \in 1 .. Len(new) :
              \/ new[i] = [name |-> n, value |-> p]
              \/ \E j \in 1 .. Len(variables) : new[i] = variables[j]
      BY <1>3, UpdatedProperties
    <2>2. variables' = new
      BY <1>1
    <2> HIDE DEF new
    <2> QED BY <2>1, <2>2
  <1>5. \A i \in 1 .. Len(variables') : variables'[i].value \in PlainValues
    BY <1>4 DEF CleanHeap
  <1> QED BY <1>1, <1>2, <1>5 DEF CleanHeap, Remain

LEMMA CleanStartGc == ASSUME ScriptInv, CleanHeap, StartGc PROVE CleanHeap'
  <1>1. /\ oldHeap' = heap /\ oldVariables' = variables /\ heap' = <<>> /\ variables' = <<>>
    BY DEF StartGc
  <1>2. \A i \in 1 .. Len(variables) :
            variables[i].value # Null /\ Plain(heap[variables[i].value.at])
    BY LiveIs DEF CleanHeap, PlainValues, ScriptInv, HeapInv
  <1>3. 1 .. Len(heap') = {} /\ 1 .. Len(variables') = {}
    BY <1>1
  <1> QED BY <1>1, <1>2, <1>3 DEF CleanHeap

\* A collection finds no variable that is NULL and none that it would make NULL.
LEMMA CleanCopyVariable ==
    ASSUME ScriptInv, CleanHeap, CopyVariable
    PROVE  CleanHeap' /\ Remain /\ halted' # "null"
  <1> DEFINE v == Head(oldVariables)
             t == Deref(v.value)
             rest == Tail(oldVariables)
  <1>1. oldVariables # <<>> /\ halted = "no" /\ oldVariables \in Seq(Variable)
    BY DEF CopyVariable, ScriptInv, HeapInv, HeapTypeOK
  <1>2. 1 \in 1 .. Len(oldVariables) /\ v = oldVariables[1]
    BY <1>1
  <1>3. v.value # Null
    BY <1>2 DEF CleanHeap
  <1>4. /\ v \in Variable /\ t = oldHeap[v.value.at] /\ t \in Term
        /\ rest \in Seq(Variable) /\ Len(rest) = Len(oldVariables) - 1
        /\ \A i \in 1 .. Len(rest) : rest[i] = oldVariables[i + 1]
    BY <1>1, <1>3, CopyProperties DEF ScriptInv
  <1>5. Plain(t)
    BY <1>2, <1>4 DEF CleanHeap
  <1>6. /\ heap' = Append(heap, t)
        /\ variables' = Updated(variables, v.name, NextPointer)
        /\ Alloc(Cells(t) + UpdateCells(variables, v.name))
        /\ oldVariables' = rest /\ UNCHANGED <<gen, collecting, oldHeap>>
    BY <1>3, <1>5 DEF CopyVariable, Plain, Duped
  <1> HIDE DEF t, v
  <1>7. heap \in Seq(Term) /\ Len(heap) \in Nat /\ gen \in Nat
    BY DEF ScriptInv, HeapInv, HeapTypeOK
  <1>8. /\ Len(heap') = Len(heap) + 1 /\ heap'[Len(heap) + 1] = t
        /\ \A i \in 1 .. Len(heap) : heap'[i] = heap[i]
        /\ \A i \in 1 .. Len(heap') :
               heap'[i] = t \/ \E j \in 1 .. Len(heap) : heap'[i] = heap[j]
    BY <1>4, <1>6, <1>7
  <1>9. Grows /\ NextPointer \in LivePointers' /\ heap'[NextPointer.at] = t
    BY <1>6, <1>7, <1>8 DEF Grows, LivePointers, NextPointer
  <1>10. Remain /\ NextPointer \in PlainValues'
    BY <1>5, <1>9, GrowsRemain DEF PlainValues
  <1>11. \A i \in 1 .. Len(heap') : CleanTerm(heap'[i], Resolvable')
    <2>1. \A u : CleanTerm(u, Resolvable) => CleanTerm(u, Resolvable')
      BY <1>10 DEF Remain, CleanTerm
    <2>2. CleanTerm(t, Resolvable')
      BY <1>5 DEF Plain, CleanTerm
    <2> QED BY <1>8, <2>1, <2>2 DEF CleanHeap
  <1>12. \A i \in 1 .. Len(variables') : variables'[i].value \in PlainValues'
    <2>1. /\ variables \in Seq(Variable) /\ Once(variables) /\ v.name \in Names
          /\ NextPointer \in Pointer
      BY <1>4, <1>7 DEF ScriptInv, HeapInv, HeapTypeOK, NamedOnce, Once, Variable, NextPointer, Pointer
    <2>2. \A i \in 1 .. Len(variables') :
              \/ variables'[i] = [name |-> v.name, value |-> NextPointer]
              \/ \E j \in 1 .. Len(variables) : variables'[i] = variables[j]
      <3> DEFINE new == Updated(variables, v.name, NextPointer)
      <3>1. \A i \in 1 .. Len(new) :
                \/ new[i] = [name |-> v.name, value |-> NextPointer]
                \/ \E j \in 1 .. Len(variables) : new[i] = variables[j]
        BY <2>1, UpdatedProperties
      <3>2. variables' = new
        BY <1>6
      <3> HIDE DEF new
      <3> QED BY <3>1, <3>2
    <2> QED BY <1>10, <2>2 DEF CleanHeap, Remain
  <1>13. \A i \in 1 .. Len(oldVariables') :
             LET p == oldVariables'[i].value IN p # Null /\ Plain(oldHeap'[p.at])
    <2>1. \A i \in 1 .. Len(rest) : i + 1 \in 1 .. Len(oldVariables)
      BY <1>1, <1>4
    <2> QED BY <1>4, <1>6, <2>1 DEF CleanHeap
  <1>14. halted' # "null"
    BY <1>1, <1>6 DEF Alloc
  <1> QED BY <1>10, <1>11, <1>12, <1>13, <1>14 DEF CleanHeap

LEMMA CleanFreeOldHeap == ASSUME ScriptInv, CleanHeap, FreeOldHeap PROVE CleanHeap' /\ Remain
  <1>1. UNCHANGED <<gen, heap, variables, oldVariables>> /\ oldVariables = <<>>
    BY DEF FreeOldHeap
  <1>2. Resolvable' = Resolvable /\ PlainValues' = PlainValues
    BY <1>1 DEF Resolvable, PlainValues, LivePointers
  <1>3. 1 .. Len(oldVariables') = {}
    BY <1>1
  <1> QED BY <1>1, <1>2, <1>3 DEF CleanHeap, Remain

\* A step that leaves the heap as it is.
LEMMA CleanSame ==
    ASSUME CleanHeap, UNCHANGED <<gen, heap, variables, oldHeap, oldVariables>>
    PROVE  CleanHeap' /\ Remain /\ Resolvable' = Resolvable /\ PlainValues' = PlainValues
  <1>1. Resolvable' = Resolvable /\ PlainValues' = PlainValues
    BY DEF Resolvable, PlainValues, LivePointers
  <1> QED BY <1>1 DEF CleanHeap, Remain

-----------------------------------------------------------------------------
(* Careful frames.                                                         *)

\* The heap is clean after the step, and bison waits.
CleanWaits ==
    /\ CleanHeap' /\ Remain /\ parsing' = parsing
    /\ result' = result \/ result' \in Resolvable \cup {Null}

LEMMA CleanResult == ASSUME CleanInv, CleanWaits PROVE parsing' => result' \in Resolvable' \cup {Null}
  BY DEF CleanInv, CleanWaits, Remain

\* A function calls others before it goes on, or in its place.
LEMMA CleanCalls ==
    ASSUME ScriptInv, CleanInv, CleanWaits, frames # <<>>,
           NEW S, NEW new \in Seq(S), new # <<>>, NeatFrames(new, Resolvable', PlainValues'),
           new[1].f \notin Needs \cup {"result"},
           Gives(Head(frames), Resolvable) => Gives(new[Len(new)], Resolvable'),
           frames' = new \o Tail(frames)
    PROVE  CleanInv'
  <1> DEFINE T == S \cup Frame(LivePointers)
  <1>1. frames[1] = Head(frames) /\ frames \in Seq(T) /\ new \in Seq(T)
    <2>1. frames \in Seq(Frame(LivePointers)) /\ frames[1] = Head(frames)
      BY TopFrame DEF ScriptInv, ScriptTypes
    <2>2. S \subseteq T /\ Frame(LivePointers) \subseteq T
      OBVIOUS
    <2> HIDE DEF T
    <2> QED BY <2>1, <2>2, SeqMonotonic
  <1> HIDE DEF T
  <1>2. NeatFrames(frames', Resolvable', PlainValues')
    BY <1>1, NeatReplaced DEF CleanInv, CleanFrames, CleanWaits, Remain
  <1>3. frames' # <<>> /\ Head(frames') = new[1]
    <2>1. Tail(frames) \in Seq(T) /\ new[1] = Head(new)
      BY <1>1, HeadTailProperties
    <2> QED BY <1>1, <2>1, ConcatProperties, EmptySeq, HeadTailProperties
  <1>4. CleanFrames'
    BY <1>2, <1>3 DEF CleanFrames, Takes
  <1> QED BY <1>4, CleanResult DEF CleanInv, CleanWaits

\* A function returns p.
LEMMA CleanReturn ==
    ASSUME ScriptInv, CleanInv, CleanWaits, frames # <<>>,
           frames' = Tail(frames),
           ret' \in Resolvable' \cup {Null},
           Gives(Head(frames), Resolvable) => ret' \in PlainValues'
    PROVE  CleanInv'
  <1>1. frames \in Seq(Frame(LivePointers)) /\ frames[1] = Head(frames)
    BY TopFrame DEF ScriptInv, ScriptTypes
  <1>2. /\ NeatFrames(frames', Resolvable, PlainValues)
        /\ frames' # <<>> => (frames'[1].f \in Needs => Gives(Head(frames), Resolvable))
    BY <1>1, NeatDropped DEF CleanInv, CleanFrames
  <1>3. NeatFrames(frames', Resolvable', PlainValues')
    BY <1>2, NeatGrows DEF CleanWaits, Remain
  <1>4. frames' # <<>> => Head(frames') = frames'[1]
    BY <1>1, HeadTailProperties
  <1>5. CleanFrames'
    BY <1>2, <1>3, <1>4 DEF CleanFrames, Takes
  <1> QED BY <1>5, CleanResult DEF CleanInv, CleanWaits

\* Nothing runs any more.
LEMMA CleanIdle ==
    ASSUME CleanHeap', frames' = <<>>, parsing' => result' \in Resolvable' \cup {Null}
    PROVE  CleanInv'
  <1>1. 1 .. Len(frames') = {} /\ 1 .. Len(frames') - 1 = {}
    OBVIOUS
  <1> QED BY <1>1 DEF CleanInv, CleanFrames, NeatFrames

\* The last function is done: what it was called for is on bison's stack or in parser_result.
LEMMA CleanLast ==
    ASSUME ScriptInv, CleanInv, CleanWaits, frames # <<>>, Head(frames).f \in Enders,
           frames' = Tail(frames)
    PROVE  CleanInv'
  <1>1. frames' = <<>>
    BY TopFrame, Dropped DEF ScriptInv, ScriptTypes
  <1> QED BY <1>1, CleanIdle, CleanResult DEF CleanWaits

\* A step that does nothing to the heap, the frames and the result.
LEMMA CleanUnchanged ==
    ASSUME CleanInv, UNCHANGED <<gen, heap, variables, oldHeap, oldVariables>>,
           UNCHANGED <<frames, ret, result, parsing>>
    PROVE  CleanInv'
  BY CleanSame DEF CleanInv, CleanFrames, Takes

\* A function calls others, and the heap stays as it is.
LEMMA CleanGoto ==
    ASSUME ScriptInv, CleanInv, frames # <<>>, UNCHANGED heapVars,
           NEW S, NEW new \in Seq(S), new # <<>>, NeatFrames(new, Resolvable, PlainValues),
           new[1].f \notin Needs \cup {"result"},
           Gives(Head(frames), Resolvable) => Gives(new[Len(new)], Resolvable),
           Goto(new)
    PROVE  CleanInv'
  <1>1. CleanHeap' /\ Remain /\ Resolvable' = Resolvable /\ PlainValues' = PlainValues
    BY CleanSame DEF CleanInv, heapVars
  <1>2. CleanWaits /\ frames' = new \o Tail(frames)
    BY <1>1 DEF CleanWaits, Goto, parseVars
  <1> QED BY <1>1, <1>2, CleanCalls

\* What a function returns was there before.
LEMMA CleanOldReturned ==
    ASSUME ScriptInv, CleanInv, frames # <<>>, UNCHANGED heapVars,
           NEW p \in Resolvable \cup {Null}, Return(p),
           Gives(Head(frames), Resolvable) => p \in PlainValues
    PROVE  CleanInv'
  <1>1. CleanHeap' /\ Remain /\ Resolvable' = Resolvable /\ PlainValues' = PlainValues
    BY CleanSame DEF CleanInv, heapVars
  <1>2. CleanWaits /\ ret' = p /\ frames' = <<>> \o Tail(frames)
    BY <1>1 DEF CleanWaits, Return, Goto, parseVars
  <1>3. frames' = Tail(frames)
    BY <1>2, Dropped DEF ScriptInv, ScriptTypes
  <1> QED BY <1>1, <1>2, <1>3, CleanReturn

\* What a function returns is a new value.
LEMMA CleanNewReturned ==
    ASSUME ScriptInv, CleanInv, frames # <<>>, NEW t, Plain(t), NewTerm(t), Return(NextPointer)
    PROVE  CleanInv'
  <1>1. CleanTerm(t, Resolvable)
    BY DEF Plain, CleanTerm
  <1>2. CleanHeap' /\ Remain /\ NextPointer \in PlainValues'
    BY <1>1, CleanNewTerm DEF CleanInv
  <1>3. CleanWaits /\ ret' = NextPointer /\ frames' = <<>> \o Tail(frames)
    BY <1>2 DEF CleanWaits, Return, Goto, parseVars
  <1>4. frames' = Tail(frames)
    BY <1>3, Dropped DEF ScriptInv, ScriptTypes
  <1>5. ret' \in PlainValues' /\ ret' \in Resolvable'
    BY <1>2, <1>3, PlainResolves
  <1> QED BY <1>3, <1>4, <1>5, CleanReturn

-----------------------------------------------------------------------------
(* Careful reductions.                                                     *)

\* What a reduction takes from the stack is there, and what it uses can be resolved.
LEMMA TakenUsable ==
    ASSUME NEW c, NEW s, Ready(c, s), NEW i \in 1 .. Taken(c),
           c.r \in {"fun", "neg", "bool", "cmp", "run"} \/ (c.r = "rule" /\ i # 1)
    PROVE  /\ Top(Taken(c), i).ptr \in LivePointers
           /\ CarefulScripts /\ c.r \in {"fun", "neg", "bool", "cmp"} =>
                  Top(Taken(c), i).ptr \in Resolvable
  <1> DEFINE symbol == s[Len(s) - Taken(c) + i]
             v == Top(Taken(c), i)
  <1>1. symbol # "boolean"
    <2>1. CASE c.r = "rule"
      <3>1. i \in 2 .. Taken(c)
        BY <2>1 DEF Ready
      <3> QED BY <2>1, <3>1 DEF Ready, Fits
    <2>2. CASE c.r # "rule"
      BY <2>2 DEF Ready, Fits
    <2> QED BY <2>1, <2>2
  <1>2. Is(v, symbol, LivePointers, heap)
    BY DEF Ready
  <1>3. CarefulScripts /\ c.r \in {"fun", "neg", "bool", "cmp"} => symbol # "call"
    BY DEF Ready, Uses
  <1> HIDE DEF symbol, v
  <1>4. v.ptr \in LivePointers /\ (symbol # "call" => HasResult(heap[v.ptr.at]))
    BY <1>1, <1>2 DEF Is
  <1> QED BY <1>3, <1>4 DEF Resolvable, v

LEMMA ShiftClean == ASSUME ScriptInv, CleanInv, Shift PROVE CleanInv'
  <1> DEFINE t == Head(code).term
  <1>1. Reducing({"shift"}) /\ NewTerm(t) /\ UNCHANGED <<frames, result, parsing>>
    BY DEF Shift, parseVars
  <1>2. PICK s : Ready(Head(code), s) /\ parsing /\ frames = <<>> /\ Head(code).r = "shift"
    BY <1>1, ReducingIsReady
  <1>3. CleanTerm(t, Resolvable)
    BY <1>2 DEF Ready, Reduction, Literals, CleanTerm
  <1>4. CleanHeap' /\ Remain
    BY <1>1, <1>3, CleanNewTerm DEF CleanInv
  <1> QED BY <1>1, <1>2, <1>4, CleanIdle DEF CleanInv, Remain

\* A call is made of what can be resolved.
LEMMA NewFunClean == ASSUME CarefulScripts, ScriptInv, CleanInv, NewFun PROVE CleanInv'
  <1> DEFINE c == Head(code)
             n == c.n
             params == [i \in 1 .. n |-> Top(n, i).ptr]
             t == [kind |-> "fun", fun |-> c.fun, params |-> params]
  <1>1. Reducing({"fun"}) /\ NewTerm(t) /\ UNCHANGED <<frames, result, parsing>>
    BY DEF NewFun, parseVars
  <1>2. PICK s : Ready(c, s) /\ parsing /\ frames = <<>> /\ c.r = "fun"
    BY <1>1, ReducingIsReady
  <1>3. n \in Nat
    BY <1>2, NamedCall DEF Ready
  <1>4. \A i \in 1 .. n : Top(n, i).ptr \in Resolvable
    <2> SUFFICES ASSUME NEW i \in 1 .. n PROVE Top(n, i).ptr \in Resolvable
      OBVIOUS
    <2>1. PICK j \in 1 .. Taken(c) : Top(n, i) = Top(Taken(c), j)
      BY <1>2, ParameterTaken
    <2>2. Top(Taken(c), j).ptr \in Resolvable
      BY <1>2, TakenUsable
    <2> QED BY <2>1, <2>2
  <1>5. c.fun = "sleep" => n > 0
    BY <1>2 DEF Ready, Uses
  <1>6. /\ params \in Seq(Resolvable) /\ Len(params) = n
        /\ \A i \in 1 .. n : params[i] \in Resolvable
    BY <1>3, <1>4
  <1> HIDE DEF params
  <1>7. CleanTerm(t, Resolvable)
    BY <1>5, <1>6 DEF CleanTerm
  <1> HIDE DEF t
  <1>8. CleanHeap' /\ Remain
    BY <1>1, <1>7, CleanNewTerm DEF CleanInv
  <1> QED BY <1>1, <1>2, <1>8, CleanIdle DEF CleanInv, Remain

LEMMA LogicClean == ASSUME CleanInv, Logic PROVE CleanInv'
  BY CleanUnchanged DEF Logic, heapVars, parseVars

\* What is resolved first.
LEMMA ResolveNeat ==
    ASSUME ScriptInv, NEW p \in LivePointers
    PROVE  /\ Resolve(p) \in Frame(LivePointers)
           /\ Neat(Resolve(p), Resolvable, PlainValues)
           /\ Resolve(p).f \notin Needs \cup {"result"}
           /\ p \in Resolvable => Gives(Resolve(p), Resolvable)
  <1>1. p # Null
    BY LiveIs DEF ScriptInv, HeapInv
  <1> QED BY <1>1 DEF Neat, Gives, Resolve, Needs, Frame

\* A condition is evaluated from what has a value; a call whose result is not used needs none.
LEMMA EvaluateClean == ASSUME CarefulScripts, ScriptInv, CleanInv, Evaluate PROVE CleanInv'
  <1> DEFINE c == Head(code)
             n == Taken(c)
             Runs == /\ NeatFrames(frames', Resolvable, PlainValues)
                     /\ frames' # <<>> => frames'[1].f \notin Needs \cup {"result"}
  <1>1. /\ Reducing({"bool", "neg", "cmp", "run", "rule"})
        /\ UNCHANGED <<heapVars, ret, result, parsing>>
    BY DEF Evaluate, parseVars
  <1>2. PICK s : Ready(c, s) /\ parsing /\ c.r \in {"bool", "neg", "cmp", "run", "rule"}
    BY <1>1, ReducingIsReady
  <1>3. ASSUME NEW p \in LivePointers, NEW b, Neat(b, Resolvable, PlainValues),
               b.f \in Needs => p \in Resolvable,
               frames' = <<Resolve(p), b>>
        PROVE  Runs
    <2> DEFINE a == Resolve(p)
    <2>1. /\ Neat(a, Resolvable, PlainValues) /\ a.f \notin Needs \cup {"result"}
          /\ p \in Resolvable => Gives(a, Resolvable)
      BY ResolveNeat
    <2> HIDE DEF a
    <2>2. NeatFrames(<<a, b>>, Resolvable, PlainValues)
      BY <1>3, <2>1, NeatTwo
    <2>3. frames' = <<a, b>> /\ frames'[1] = a
      BY <1>3 DEF a
    <2> QED BY <2>1, <2>2, <2>3
  <1>4. ASSUME c.r \in {"bool", "neg"} PROVE Runs
    <2> DEFINE p == Top(1, 1).ptr
               b == [f |-> c.r]
    <2>1. n = 1
      BY <1>4 DEF Taken
    <2>2. p \in LivePointers /\ p \in Resolvable
      BY <1>2, <1>4, <2>1, TakenUsable
    <2>3. frames' = <<Resolve(p), b>>
      BY <1>4 DEF Evaluate
    <2>4. Neat(b, Resolvable, PlainValues)
      BY <1>4 DEF Neat
    <2> HIDE DEF p, b
    <2> QED BY <1>3, <2>2, <2>3, <2>4
  <1>5. ASSUME c.r = "cmp" PROVE Runs
    <2> DEFINE p == Top(2, 1).ptr
               q == Top(2, 2).ptr
               b == [f |-> "cmp", rel |-> c.rel, right |-> q]
    <2>1. n = 2
      BY <1>5 DEF Taken
    <2>2. p \in LivePointers /\ p \in Resolvable /\ q \in Resolvable
      BY <1>2, <1>5, <2>1, TakenUsable
    <2>3. frames' = <<Resolve(p), b>>
      BY <1>5 DEF Evaluate
    <2> HIDE DEF p, q
    <2>4. Neat(b, Resolvable, PlainValues)
      BY <2>2 DEF Neat
    <2> HIDE DEF b
    <2> QED BY <1>3, <2>2, <2>3, <2>4
  <1>6. ASSUME c.r = "run" PROVE Runs
    <2> DEFINE p == Top(1, 1).ptr
               b == [f |-> "result"]
    <2>1. n = 1
      BY <1>6 DEF Taken
    <2>2. p \in LivePointers
      BY <1>2, <1>6, <2>1, TakenUsable
    <2>3. frames' = <<Resolve(p), b>>
      BY <1>6 DEF Evaluate
    <2>4. Neat(b, Resolvable, PlainValues) /\ b.f \notin Needs
      BY DEF Neat, Needs
    <2> HIDE DEF p, b
    <2> QED BY <1>3, <2>2, <2>3, <2>4
  <1>7. ASSUME c.r = "rule" PROVE Runs
    <2> DEFINE b == [f |-> "no result"]
               k == IF Top(c.n + 1, 1).bool THEN c.n ELSE 0
               first == IF Top(c.n + 1, 1).bool THEN Block(c.n) ELSE <<>>
               P(fr) == Neat(fr, Resolvable, PlainValues) /\ fr.f \notin Needs \cup {"result"}
               S == {fr \in Frame(LivePointers) : P(fr)}
    <2>1. n = c.n + 1 /\ c.n \in Nat /\ k \in Nat
      BY <1>2, <1>7 DEF Taken, Ready, Reduction
    <2>2. frames' = first \o <<b>>
      BY <1>7 DEF Evaluate
    <2>3. b \in S
      BY DEF Frame, Neat, Needs
    <2>4. \A i \in 1 .. c.n : Resolve(Top(c.n, i).ptr) \in S
      <3> SUFFICES ASSUME NEW i \in 1 .. c.n PROVE Resolve(Top(c.n, i).ptr) \in S
        OBVIOUS
      <3>1. i + 1 \in 1 .. n /\ i + 1 # 1
        BY <2>1
      <3>2. Len(stack) - c.n + i = Len(stack) - n + (i + 1)
        <4>1. Len(stack) \in Int /\ c.n \in Int /\ i \in Int
          BY <1>2, <2>1 DEF Ready
        <4> QED BY <2>1, <4>1, NextTo
      <3>3. Top(c.n, i) = Top(n, i + 1)
        BY <3>2 DEF Top
      <3>4. Top(c.n, i).ptr \in LivePointers
        BY <1>2, <1>7, <3>1, <3>3, TakenUsable
      <3> DEFINE a == Resolve(Top(c.n, i).ptr)
      <3>5. a \in Frame(LivePointers) /\ P(a)
        BY <3>4, ResolveNeat
      <3> HIDE DEF a, P
      <3>6. a \in S
        BY <3>5
      <3> QED BY <3>6 DEF a
    <2> HIDE DEF S
    <2>5. first \in Seq(S) /\ Len(first) = k
      <3>1. CASE Top(c.n + 1, 1).bool
        BY <2>1, <2>4, <3>1 DEF Block
      <3>2. CASE ~Top(c.n + 1, 1).bool
        BY <3>2
      <3> QED BY <3>1, <3>2
    <2> HIDE DEF first, b, k
    <2>6. frames' \in Seq(S)
      BY <2>1, <2>2, <2>3, <2>5, OneBehind
    <2>7. \A i \in 1 .. Len(frames') : P(frames'[i])
      BY <2>6 DEF S
    <2>8. Len(frames') \in Nat /\ \A i \in 1 .. Len(frames') - 1 : i + 1 \in 1 .. Len(frames')
      BY <2>6
    <2>9. frames' # <<>> => 1 \in 1 .. Len(frames')
      BY <2>6, EmptySeq
    <2> QED BY <2>7, <2>8, <2>9 DEF NeatFrames
  <1>8. Runs
    BY <1>2, <1>4, <1>5, <1>6, <1>7
  <1>9. CleanHeap' /\ Resolvable' = Resolvable /\ PlainValues' = PlainValues
    BY <1>1, CleanSame DEF CleanInv, heapVars
  <1>10. frames' # <<>> => Head(frames') = frames'[1]
    OBVIOUS
  <1>11. CleanFrames'
    BY <1>8, <1>9, <1>10 DEF CleanFrames, Takes
  <1> QED BY <1>1, <1>9, <1>11 DEF CleanInv

\* repl() prints what the last statement has left, if that has a value.
LEMMA EndClean == ASSUME ScriptInv, CleanInv, parsing, EndParse PROVE CleanInv'
  <1>1. /\ UNCHANGED heapVars /\ parsing' = FALSE
        /\ \/ frames' = <<>>
           \/ result # Null /\ frames' = <<Resolve(result), ToStr, [f |-> "shown"]>>
    BY DEF EndParse
  <1>2. CleanHeap' /\ Resolvable' = Resolvable /\ PlainValues' = PlainValues
    BY <1>1, CleanSame DEF CleanInv, heapVars
  <1>3. CASE frames' = <<>>
    BY <1>1, <1>2, <1>3, CleanIdle
  <1>4. CASE result # Null /\ frames' = <<Resolve(result), ToStr, [f |-> "shown"]>>
    <2> DEFINE a == Resolve(result)
               b == ToStr
               c == [f |-> "shown"]
    <2>1. result \in Resolvable /\ result \in LivePointers
      BY <1>4 DEF CleanInv, Resolvable
    <2>2. /\ Neat(a, Resolvable, PlainValues) /\ a.f \notin Needs \cup {"result"}
          /\ Gives(a, Resolvable)
      BY <2>1, ResolveNeat
    <2>3. /\ Neat(b, Resolvable, PlainValues) /\ Neat(c, Resolvable, PlainValues)
          /\ c.f \notin Needs
      BY DEF Neat, ToStr, Needs
    <2>4. frames' = <<a, b, c>>
      BY <1>4
    <2> HIDE DEF a, b, c
    <2>5. NeatFrames(<<a, b, c>>, Resolvable, PlainValues)
      BY <2>2, <2>3, NeatThree
    <2>6. Head(frames') = a
      BY <2>4
    <2> QED BY <1>1, <1>2, <2>2, <2>4, <2>5, <2>6 DEF CleanInv, CleanFrames, Takes
  <1> QED BY <1>1, <1>3, <1>4

LEMMA SyntaxErrorClean == ASSUME ScriptInv, CleanInv, SyntaxError PROVE CleanInv'
  BY EndClean DEF SyntaxError, Reducing

LEMMA EndOfInputClean == ASSUME ScriptInv, CleanInv, EndOfInput PROVE CleanInv'
  BY EndClean DEF EndOfInput

LEMMA NextStatementClean == ASSUME CleanInv, NextStatement PROVE CleanInv'
  BY CleanUnchanged DEF NextStatement, heapVars, parseVars

LEMMA EvalClean == ASSUME ScriptInv, CleanInv, Eval PROVE CleanInv'
  <1>1. frames = <<>> /\ frames' = <<>> /\ ~parsing /\ StartGc /\ SetInput
    BY DEF Eval
  <1>2. CleanHeap'
    BY <1>1, CleanStartGc DEF CleanInv
  <1>3. parsing' => result' = Null
    <2>1. CASE UNCHANGED <<input, parsing, result>>
      BY <1>1, <2>1
    <2> QED BY <1>1, <2>1 DEF SetInput
  <1> QED BY <1>1, <1>2, <1>3, CleanIdle

LEMMA CollectClean == ASSUME ScriptInv, CleanInv, Collect PROVE CleanInv' /\ halted' # "null"
  <1>1. UNCHANGED <<frames, ret, result, parsing>>
    BY DEF Collect, scriptVars, parseVars
  <1>2. CleanHeap' /\ Remain /\ halted' # "null"
    BY CleanCopyVariable, CleanFreeOldHeap DEF Collect, CleanInv, FreeOldHeap
  <1>3. NeatFrames(frames', Resolvable', PlainValues')
    BY <1>1, <1>2, NeatGrows DEF CleanInv, CleanFrames, Remain
  <1>4. CleanFrames'
    BY <1>1, <1>2, <1>3 DEF CleanInv, CleanFrames, Takes, Remain
  <1> QED BY <1>1, <1>2, <1>4 DEF CleanInv, Remain

-----------------------------------------------------------------------------
(* Careful functions.                                                      *)

\* The function that runs has what it needs.
LEMMA RunningClean ==
    ASSUME ScriptInv, CleanInv, NEW f, Running(f)
    PROVE  /\ halted = "no" /\ frames # <<>>
           /\ Head(frames) \in Frame(LivePointers) /\ Head(frames).f = f
           /\ Neat(Head(frames), Resolvable, PlainValues)
           /\ Takes(Head(frames), ret, Resolvable, PlainValues)
  <1>1. /\ halted = "no" /\ frames # <<>> /\ Head(frames) = frames[1]
        /\ Head(frames) \in Frame(LivePointers) /\ Head(frames).f = f
        /\ frames \in Seq(Frame(LivePointers))
    BY RunningTop, TopFrame DEF ScriptInv, ScriptTypes
  <1>2. 1 \in 1 .. Len(frames)
    BY <1>1, EmptySeq
  <1> QED BY <1>1, <1>2 DEF CleanInv, CleanFrames, NeatFrames

\* A plain value is a term of the heap.
LEMMA PlainIs ==
    ASSUME ScriptInv, NEW p \in PlainValues
    PROVE  /\ p \in LivePointers /\ p # Null /\ p \in Resolvable
           /\ Deref(p) = heap[p.at] /\ Plain(Deref(p)) /\ Deref(p) \in Term
  BY LiveIs, PlainResolves DEF PlainValues, ScriptInv, HeapInv

\* The frames of a call are neat, and give a value if the function returns one.
BeginsNeat(new, t) ==
    /\ NeatFrames(new, Resolvable, PlainValues)
    /\ new[1].f \notin Needs \cup {"result"}
    /\ HasResult(t) => Gives(new[Len(new)], Resolvable)

LEMMA BodyNeat ==
    ASSUME ScriptInv, CleanHeap, NEW p \in LivePointers, NEW t, t = Deref(p), t.kind = "fun"
    PROVE  BeginsNeat(Body(t), t)
  <1> DEFINE R == Resolvable
             n == Len(t.params)
             first == Resolve(IF t.params = <<>> THEN Null ELSE t.params[1])
  <1>1. t.params \in Seq(LivePointers) /\ Sound(t, heap)
    BY DerefIs DEF ScriptInv
  <1>2. t.fun \in DOMAIN Arity /\ n >= Arity[t.fun] /\ n \in Nat
    BY <1>1 DEF Sound, Known
  <1>3. CleanTerm(t, R)
    BY LiveIs DEF ScriptInv, HeapInv, CleanHeap
  <1>4. (\A j \in 1 .. n : t.params[j] \in R) /\ (t.fun = "sleep" => n > 0)
    BY <1>3 DEF CleanTerm
  <1>5. ASSUME NEW q \in R
        PROVE  /\ Neat(Resolve(q), R, PlainValues) /\ Gives(Resolve(q), R)
               /\ Resolve(q).f \notin Needs \cup {"result"}
    BY ResolveNeat DEF Resolvable
  <1>6. ASSUME n > 0
        PROVE  /\ Neat(first, R, PlainValues) /\ Gives(first, R)
               /\ first.f \notin Needs \cup {"result"}
    <2>1. t.params # <<>> /\ 1 \in 1 .. n
      BY <1>2, <1>6
    <2>2. first = Resolve(t.params[1])
      BY <2>1
    <2> HIDE DEF first
    <2> QED BY <1>4, <1>5, <2>1, <2>2
  <1>7. Neat(ToStr, R, PlainValues) /\ Gives(ToStr, R)
    BY DEF ToStr, Neat, Gives
  <1>8. n >= 2 => 1 \in 1 .. n /\ 2 \in 1 .. n /\ n > 0
    BY <1>2
  <1>9. CASE t.fun = "="
    <2> DEFINE a == Resolve(t.params[2])
               b == [f |-> "assign", name |-> Deref(t.params[1]).name]
    <2>1. t.params[2] \in R
      BY <1>2, <1>4, <1>8, <1>9 DEF Arity
    <2>2. /\ Neat(a, R, PlainValues) /\ Gives(a, R) /\ a.f \notin Needs \cup {"result"}
      BY <1>5, <2>1
    <2>3. Neat(b, R, PlainValues) /\ Gives(b, R)
      BY DEF Neat, Gives
    <2>4. Body(t) = <<a, b>>
      BY <1>9 DEF Body
    <2> HIDE DEF a, b, R
    <2>5. NeatFrames(<<a, b>>, R, PlainValues)
      BY <2>2, <2>3, NeatTwo
    <2> QED BY <2>2, <2>3, <2>4, <2>5 DEF BeginsNeat, R
  <1>10. CASE t.fun \in {"+", "-"}
    <2> DEFINE b == [f |-> "left", fun |-> t.fun, right |-> t.params[2]]
    <2>1. t.params[2] \in R /\ n > 0
      BY <1>2, <1>4, <1>8, <1>10 DEF Arity
    <2>2. Neat(b, R, PlainValues) /\ Gives(b, R)
      BY <2>1 DEF Neat, Gives
    <2>3. Body(t) = <<first, b>>
      BY <1>10 DEF Body
    <2> HIDE DEF b, first, R
    <2>4. NeatFrames(<<first, b>>, R, PlainValues)
      BY <1>6, <2>1, <2>2, NeatTwo
    <2> QED BY <1>6, <2>1, <2>2, <2>3, <2>4 DEF BeginsNeat, R
  <1>11. CASE t.fun = "print"
    <2> DEFINE b == [f |-> "print", rest |-> t.params]
    <2>1. Neat(b, R, PlainValues) /\ b.f \notin Needs \cup {"result"}
      BY <1>4 DEF Neat, Needs
    <2>2. Body(t) = <<b>>
      BY <1>11 DEF Body
    <2> HIDE DEF b, R
    <2>3. NeatFrames(<<b>>, R, PlainValues)
      BY <2>1, NeatOne
    <2>4. ~HasResult(t)
      BY <1>11 DEF HasResult, Resultless
    <2> QED BY <2>1, <2>2, <2>3, <2>4 DEF BeginsNeat, R
  <1>12. CASE t.fun = "getenv"
    <2> DEFINE c == [f |-> "getenv"]
    <2>1. n > 0
      BY <1>2, <1>12 DEF Arity
    <2>2. Neat(c, R, PlainValues) /\ Gives(c, R) /\ c.f \notin Needs
      BY DEF Neat, Gives, Needs
    <2>3. Body(t) = <<first, ToStr, c>>
      BY <1>12 DEF Body
    <2> HIDE DEF c, first, R
    <2>4. NeatFrames(<<first, ToStr, c>>, R, PlainValues)
      BY <1>6, <1>7, <2>1, <2>2, NeatThree
    <2> QED BY <1>6, <2>1, <2>2, <2>3, <2>4 DEF BeginsNeat, R
  <1>13. CASE t.fun = "setenv"
    <2> DEFINE c == [f |-> "setname", value |-> t.params[2]]
    <2>1. t.params[2] \in R /\ n > 0
      BY <1>2, <1>4, <1>8, <1>13 DEF Arity
    <2>2. Neat(c, R, PlainValues) /\ c.f \notin Needs
      BY <2>1 DEF Neat, Needs
    <2>3. Body(t) = <<first, ToStr, c>>
      BY <1>13 DEF Body
    <2> HIDE DEF c, first, R
    <2>4. NeatFrames(<<first, ToStr, c>>, R, PlainValues)
      BY <1>6, <1>7, <2>1, <2>2, NeatThree
    <2>5. ~HasResult(t)
      BY <1>13 DEF HasResult, Resultless
    <2> QED BY <1>6, <2>1, <2>3, <2>4, <2>5 DEF BeginsNeat, R
  <1>14. CASE t.fun = "sleep"
    <2> DEFINE b == [f |-> "sleep"]
    <2>1. Neat(b, R, PlainValues)
      BY DEF Neat
    <2>2. Body(t) = <<first, b>>
      BY <1>14 DEF Body
    <2> HIDE DEF b, first, R
    <2>3. NeatFrames(<<first, b>>, R, PlainValues)
      BY <1>4, <1>6, <1>14, <2>1, NeatTwo
    <2>4. ~HasResult(t)
      BY <1>14 DEF HasResult, Resultless
    <2> QED BY <1>4, <1>6, <1>14, <2>2, <2>3, <2>4 DEF BeginsNeat, R
  <1>15. CASE t.fun \in {"vars", "poweroff"}
    <2> DEFINE b == [f |-> t.fun]
    <2>1. Neat(b, R, PlainValues) /\ b.f \notin Needs \cup {"result"}
      BY <1>15 DEF Neat, Needs
    <2>2. Body(t) = <<b>>
      BY <1>15 DEF Body
    <2> HIDE DEF b, R
    <2>3. NeatFrames(<<b>>, R, PlainValues)
      BY <2>1, NeatOne
    <2>4. ~HasResult(t)
      BY <1>15 DEF HasResult, Resultless
    <2> QED BY <2>1, <2>2, <2>3, <2>4 DEF BeginsNeat, R
  <1>16. DOMAIN Arity = {"=", "+", "-", "setenv", "print", "getenv", "sleep", "vars", "poweroff"}
    BY DEF Arity
  <1> QED BY <1>2, <1>9, <1>10, <1>11, <1>12, <1>13, <1>14, <1>15, <1>16

LEMMA RunResolveClean == ASSUME ScriptInv, CleanInv, RunResolve PROVE CleanInv'
  <1> DEFINE top == Head(frames)
             p == top.ptr
             t == Deref(p)
             q == variables[Find(variables, t.name)].value
  <1>1. /\ frames # <<>> /\ p # Null /\ top \in Frame(LivePointers) /\ top.f = "resolve"
    BY RunningClean DEF RunResolve
  <1>2. p \in LivePointers /\ t = heap[p.at]
    BY <1>1, FrameFields, LiveIs DEF ScriptInv, HeapInv
  <1>3. Gives(top, Resolvable) => HasResult(t)
    BY <1>1, <1>2 DEF Gives, Resolvable
  <1>4. CASE /\ t.kind = "identifier" /\ Found(variables, t.name)
             /\ Goto(<<Resolve(q)>>) /\ UNCHANGED <<heapVars, ret>>
    <2>1. q \in PlainValues
      <3>1. Find(variables, t.name) \in 1 .. Len(variables)
        BY <1>4, FindProperties DEF ScriptInv, HeapInv, NamedOnce, Once
      <3> QED BY <3>1 DEF CleanInv, CleanHeap
    <2> DEFINE a == Resolve(q)
    <2>2. /\ a \in Frame(LivePointers) /\ Neat(a, Resolvable, PlainValues)
          /\ a.f \notin Needs \cup {"result"} /\ Gives(a, Resolvable)
      BY <2>1, PlainIs, ResolveNeat
    <2> HIDE DEF a
    <2> DEFINE new == <<a>>
    <2>3. /\ new \in Seq(Frame(LivePointers)) /\ new # <<>> /\ new[1] = a /\ new[Len(new)] = a
      BY <2>2
    <2>4. NeatFrames(new, Resolvable, PlainValues)
      BY <2>2, NeatOne
    <2>5. Goto(new)
      BY <1>4 DEF a
    <2> HIDE DEF new
    <2> QED BY <1>1, <1>4, <2>2, <2>3, <2>4, <2>5, CleanGoto
  <1>5. CASE NewTerm(Str("")) /\ Return(NextPointer)
    <2>1. Plain(Str(""))
      BY DEF Plain, Str
    <2> QED BY <1>1, <1>5, <2>1, CleanNewReturned
  <1>6. CASE t.kind = "fun" /\ Goto(Body(t)) /\ UNCHANGED <<heapVars, ret>>
    <2> DEFINE new == Body(t)
    <2>1. Begins(new) /\ BeginsNeat(new, t)
      BY <1>2, <1>6, BodyBegins, BodyNeat DEF CleanInv
    <2>2. Goto(new) /\ UNCHANGED heapVars
      BY <1>6
    <2> HIDE DEF new
    <2> QED BY <1>1, <1>3, <2>1, <2>2, CleanGoto DEF Begins, BeginsNeat
  <1>7. CASE /\ halted' = "stack"
             /\ UNCHANGED <<gen, heap, used, variables, collecting, oldHeap, oldVariables, scriptVars>>
    BY <1>7, CleanUnchanged DEF scriptVars, parseVars
  <1>8. CASE t.kind \in {"string", "number", "boolean"} /\ Return(p) /\ UNCHANGED heapVars
    <2>1. p \in PlainValues
      BY <1>2, <1>8 DEF PlainValues, Plain
    <2> QED BY <1>1, <1>8, <2>1, PlainResolves, CleanOldReturned
  <1> QED BY <1>4, <1>5, <1>6, <1>7, <1>8 DEF RunResolve

\* A function gives a variable its value, and returns.
LEMMA SetClean ==
    ASSUME ScriptInv, CleanInv, frames # <<>>, NEW n \in Names, NEW p \in PlainValues,
           SetVariable(n, p), NEW q \in Resolvable \cup {Null}, Return(q),
           Gives(Head(frames), Resolvable) => q \in PlainValues
    PROVE  CleanInv'
  <1>1. CleanHeap' /\ Remain
    BY CleanSetVariable DEF CleanInv
  <1>2. CleanWaits /\ ret' = q /\ frames' = <<>> \o Tail(frames)
    BY <1>1 DEF CleanWaits, Return, Goto, parseVars
  <1>3. frames' = Tail(frames)
    BY <1>2, Dropped DEF ScriptInv, ScriptTypes
  <1> QED BY <1>1, <1>2, <1>3, CleanReturn DEF Remain

LEMMA RunAssignClean == ASSUME ScriptInv, CleanInv, RunAssign PROVE CleanInv'
  <1>1. /\ frames # <<>> /\ Head(frames).name \in Names /\ ret \in PlainValues
    BY RunningClean, FrameFields DEF RunAssign, Takes, Needs
  <1>2. SetVariable(Head(frames).name, ret) /\ Return(ret)
    BY DEF RunAssign
  <1> QED BY <1>1, <1>2, SetClean, PlainResolves

LEMMA RunLeftClean == ASSUME ScriptInv, CleanInv, RunLeft PROVE CleanInv'
  <1> DEFINE top == Head(frames)
             a == Resolve(top.right)
             b == [f |-> "right", fun |-> top.fun, left |-> ToNumber(Deref(ret))]
  <1>1. frames # <<>> /\ top.right \in Resolvable
    BY RunningClean DEF RunLeft, Neat
  <1>2. /\ Neat(a, Resolvable, PlainValues) /\ a.f \notin Needs \cup {"result"}
        /\ Gives(a, Resolvable)
    BY <1>1, ResolveNeat DEF Resolvable
  <1>3. Neat(b, Resolvable, PlainValues) /\ Gives(b, Resolvable)
    BY DEF Neat, Gives
  <1>4. UNCHANGED heapVars /\ Goto(<<a, b>>)
    BY DEF RunLeft
  <1> HIDE DEF a, b
  <1> DEFINE new == <<a, b>>
  <1>5. new \in Seq({a, b}) /\ new # <<>> /\ new[1] = a /\ new[Len(new)] = b /\ Goto(new)
    BY <1>4
  <1>6. NeatFrames(new, Resolvable, PlainValues)
    BY <1>2, <1>3, NeatTwo
  <1> HIDE DEF new
  <1> QED BY <1>1, <1>2, <1>3, <1>4, <1>5, <1>6, CleanGoto

LEMMA RunRightClean == ASSUME ScriptInv, CleanInv, RunRight PROVE CleanInv'
  <1> DEFINE k == Wrap(IF Head(frames).fun = "+" THEN Head(frames).left + ToNumber(Deref(ret))
                                                 ELSE Head(frames).left - ToNumber(Deref(ret)))
  <1>1. frames # <<>> /\ NewTerm(Num(k)) /\ Return(NextPointer)
    BY RunningClean DEF RunRight
  <1> HIDE DEF k
  <1> QED BY <1>1, CleanNewReturned DEF Plain, Num

LEMMA RunTextClean == ASSUME ScriptInv, CleanInv, RunText PROVE CleanInv'
  <1>1. frames # <<>> /\ ret \in PlainValues
    BY RunningClean DEF RunText, Takes, Needs
  <1>2. Plain(Deref(ret))
    BY <1>1, PlainIs
  <1>3. CASE Goto(<<>>) /\ UNCHANGED <<heapVars, ret>>
    <2>1. Return(ret)
      BY <1>3 DEF Return
    <2> QED BY <1>1, <1>3, <2>1, PlainResolves, CleanOldReturned
  <1>4. CASE NewTerm(Str(Text(Deref(ret)))) /\ Return(NextPointer)
    <2> DEFINE str == Text(Deref(ret))
    <2>1. NewTerm(Str(str))
      BY <1>4
    <2> HIDE DEF str
    <2> QED BY <1>1, <1>4, <2>1, CleanNewReturned DEF Plain, Str
  <1> QED BY <1>2, <1>3, <1>4 DEF RunText, Plain

LEMMA RunPrintClean == ASSUME ScriptInv, CleanInv, RunPrint PROVE CleanInv'
  <1> DEFINE top == Head(frames)
             rest == top.rest
  <1>1. /\ frames # <<>> /\ top \in Frame(LivePointers) /\ top.f = "print"
        /\ UNCHANGED heapVars
        /\ \A i \in 1 .. Len(rest) : rest[i] \in Resolvable
    BY RunningClean DEF RunPrint, Neat
  <1>2. ~Gives(top, Resolvable)
    BY <1>1 DEF Gives
  <1>3. CASE Return(Null)
    BY <1>1, <1>2, <1>3, CleanOldReturned
  <1>4. CASE rest # <<>> /\ Goto(<<Resolve(Head(rest)), ToStr, [f |-> "print", rest |-> Tail(rest)]>>)
    <2> DEFINE a == Resolve(Head(rest))
               b == ToStr
               c == [f |-> "print", rest |-> Tail(rest)]
    <2>1. rest \in Seq(LivePointers)
      BY <1>1, FrameFields
    <2>2. /\ Head(rest) \in Resolvable
          /\ \A i \in 1 .. Len(Tail(rest)) : Tail(rest)[i] \in Resolvable
      <3> HIDE DEF rest
      <3>1. /\ 1 \in 1 .. Len(rest) /\ Head(rest) = rest[1]
            /\ \A i \in 1 .. Len(Tail(rest)) : i + 1 \in 1 .. Len(rest) /\ Tail(rest)[i] = rest[i + 1]
        BY <1>4, <2>1
      <3> QED BY <1>1, <3>1 DEF rest
    <2>3. /\ Neat(a, Resolvable, PlainValues) /\ a.f \notin Needs \cup {"result"}
          /\ Gives(a, Resolvable)
      BY <2>2, ResolveNeat DEF Resolvable
    <2>4. Neat(b, Resolvable, PlainValues)
      BY DEF Neat, ToStr
    <2>5. Neat(c, Resolvable, PlainValues) /\ c.f \notin Needs
      <3> DEFINE u == Tail(rest)
      <3> HIDE DEF u
      <3>1. c = [f |-> "print", rest |-> u]
        BY DEF u
      <3>2. \A i \in 1 .. Len(u) : u[i] \in Resolvable
        BY <2>2 DEF u
      <3> HIDE DEF c
      <3> QED BY <3>1, <3>2 DEF Neat, Needs
    <2>6. Goto(<<a, b, c>>)
      BY <1>4
    <2> HIDE DEF a, b, c
    <2> DEFINE new == <<a, b, c>>
    <2>7. new \in Seq({a, b, c}) /\ new # <<>> /\ new[1] = a /\ Goto(new)
      BY <2>6
    <2>8. NeatFrames(new, Resolvable, PlainValues)
      BY <2>3, <2>4, <2>5, NeatThree
    <2> HIDE DEF new
    <2> QED BY <1>1, <1>2, <2>3, <2>7, <2>8, CleanGoto
  <1> QED BY <1>3, <1>4 DEF RunPrint

LEMMA RunGetenvClean == ASSUME ScriptInv, CleanInv, RunGetenv PROVE CleanInv'
  <1> DEFINE str == env[Deref(ret).string]
  <1>1. frames # <<>> /\ NewTerm(Str(str)) /\ Return(NextPointer)
    BY RunningClean DEF RunGetenv
  <1> HIDE DEF str
  <1> QED BY <1>1, CleanNewReturned DEF Plain, Str

\* The flag that set_variable() will be given is a plain value.
LEMMA FlagClean ==
    ASSUME ScriptInv, CleanInv, frames # <<>>, ~Gives(Head(frames), Resolvable),
           NEW b, NewTerm(Bool(b)), NEW q \in Resolvable \cup {Null},
           frames' = <<[f |-> "modified", ptr |-> NextPointer, value |-> q]>> \o Tail(frames),
           UNCHANGED parseVars
    PROVE  CleanInv'
  <1> DEFINE a == [f |-> "modified", ptr |-> NextPointer, value |-> q]
  <1>1. Plain(Bool(b)) /\ CleanTerm(Bool(b), Resolvable)
    BY DEF Plain, CleanTerm, Bool
  <1>2. CleanHeap' /\ Remain /\ NextPointer \in PlainValues'
    BY <1>1, CleanNewTerm DEF CleanInv
  <1>3. CleanWaits
    BY <1>2 DEF CleanWaits, parseVars
  <1>4. Neat(a, Resolvable', PlainValues') /\ a.f \notin Needs \cup {"result"}
    BY <1>2 DEF Neat, Needs, Remain
  <1>5. frames' = <<a>> \o Tail(frames)
    OBVIOUS
  <1> HIDE DEF a
  <1> DEFINE new == <<a>>
  <1>6. new \in Seq({a}) /\ new # <<>> /\ new[1] = a /\ frames' = new \o Tail(frames)
    BY <1>5
  <1>7. NeatFrames(new, Resolvable', PlainValues')
    BY <1>4, NeatOne
  <1> HIDE DEF new
  <1> QED BY <1>3, <1>4, <1>6, <1>7, CleanCalls

LEMMA RunSetenvClean == ASSUME ScriptInv, CleanInv, RunSetenv PROVE CleanInv'
  <1> DEFINE top == Head(frames)
  <1>1. CASE /\ Running("setname") /\ UNCHANGED <<heapVars, ret>>
             /\ LET value == Head(frames).value
                IN Goto(<<Resolve(value), ToStr,
                          [f |-> "setenv", name |-> Deref(ret).string, value |-> value]>>)
    <2> DEFINE a == Resolve(top.value)
               b == ToStr
               c == [f |-> "setenv", name |-> Deref(ret).string, value |-> top.value]
    <2>1. frames # <<>> /\ top.f = "setname" /\ top.value \in Resolvable
      BY <1>1, RunningClean DEF Neat
    <2>2. ~Gives(top, Resolvable)
      BY <2>1 DEF Gives
    <2>3. /\ Neat(a, Resolvable, PlainValues) /\ a.f \notin Needs \cup {"result"}
          /\ Gives(a, Resolvable)
      BY <2>1, ResolveNeat DEF Resolvable
    <2>4. Neat(b, Resolvable, PlainValues) /\ c.f \notin Needs
      BY DEF Neat, ToStr, Needs
    <2>5. Neat(c, Resolvable, PlainValues)
      BY <2>1 DEF Neat
    <2>6. Goto(<<a, b, c>>) /\ UNCHANGED heapVars
      BY <1>1
    <2> HIDE DEF a, b, c
    <2> DEFINE new == <<a, b, c>>
    <2>7. new \in Seq({a, b, c}) /\ new # <<>> /\ new[1] = a /\ Goto(new)
      BY <2>6
    <2>8. NeatFrames(new, Resolvable, PlainValues)
      BY <2>3, <2>4, <2>5, NeatThree
    <2> HIDE DEF new
    <2> QED BY <2>1, <2>2, <2>3, <2>6, <2>7, <2>8, CleanGoto
  <1>2. CASE /\ Running("setenv")
             /\ NewTerm(Bool(TRUE))
             /\ frames' = <<[f |-> "modified", ptr |-> NextPointer, value |-> top.value]>>
                              \o Tail(frames)
             /\ UNCHANGED <<input, code, stack, ret, parseVars>>
    <2>1. frames # <<>> /\ top.f = "setenv" /\ top.value \in Resolvable
      BY <1>2, RunningClean DEF Neat
    <2>2. ~Gives(top, Resolvable)
      BY <2>1 DEF Gives
    <2> QED BY <1>2, <2>1, <2>2, FlagClean
  <1>3. CASE /\ Running("modified")
             /\ SetVariable("modified", top.ptr)
             /\ Return(top.value)
    <2>1. /\ frames # <<>> /\ top.f = "modified" /\ top.ptr \in PlainValues
          /\ top.value \in Resolvable \cup {Null}
      BY <1>3, RunningClean DEF Neat
    <2>2. ~Gives(top, Resolvable) /\ "modified" \in Names
      BY <2>1, ScriptAssumption DEF Gives
    <2> QED BY <1>3, <2>1, <2>2, SetClean
  <1> QED BY <1>1, <1>2, <1>3 DEF RunSetenv

LEMMA SetDefaultsClean == ASSUME ScriptInv, CleanInv, SetDefaults PROVE CleanInv'
  <1>1. frames # <<>> /\ Head(frames).f = "defaults"
    BY RunningClean DEF SetDefaults
  <1>2. ~Gives(Head(frames), Resolvable)
    BY <1>1 DEF Gives
  <1>3. /\ NewTerm(Bool(FALSE)) /\ UNCHANGED parseVars
        /\ frames' = <<[f |-> "modified", ptr |-> NextPointer, value |-> Null]>> \o Tail(frames)
    BY DEF SetDefaults
  <1>4. Null \in Resolvable \cup {Null}
    OBVIOUS
  <1> QED BY <1>1, <1>2, <1>3, <1>4, FlagClean

\* A function that returns nothing.
LEMMA NothingReturned ==
    ASSUME ScriptInv, CleanInv, NEW f \in {"sleep", "vars"}, Running(f), UNCHANGED heapVars, Return(Null)
    PROVE  CleanInv'
  <1>1. frames # <<>> /\ Head(frames).f = f
    BY RunningClean
  <1>2. ~Gives(Head(frames), Resolvable) /\ Null \in Resolvable \cup {Null}
    BY <1>1 DEF Gives
  <1> QED BY <1>1, <1>2, CleanOldReturned

LEMMA RunSleepClean == ASSUME ScriptInv, CleanInv, RunSleep PROVE CleanInv'
  BY NothingReturned DEF RunSleep

LEMMA RunVarsClean == ASSUME ScriptInv, CleanInv, RunVars PROVE CleanInv'
  BY NothingReturned DEF RunVars

LEMMA RunPoweroffClean == ASSUME ScriptInv, CleanInv, RunPoweroff PROVE CleanInv'
  BY CleanUnchanged DEF RunPoweroff, scriptVars, parseVars

LEMMA RunResultClean == ASSUME ScriptInv, CleanInv, RunResult PROVE CleanInv'
  <1>1. PICK f \in {"result", "no result"} :
            /\ Running(f)
            /\ result' = IF f = "result" THEN ret ELSE Null
            /\ frames' = Tail(frames)
            /\ UNCHANGED <<heapVars, ret, parsing>>
    BY DEF RunResult
  <1>2. /\ frames # <<>> /\ Head(frames).f = f
        /\ f = "result" => ret \in Resolvable \cup {Null}
    BY <1>1, RunningClean DEF Takes
  <1>3. CleanHeap' /\ Remain
    BY <1>1, CleanSame DEF CleanInv, heapVars
  <1>4. CleanWaits
    BY <1>1, <1>2, <1>3 DEF CleanWaits
  <1> QED BY <1>1, <1>2, <1>4, CleanLast DEF Enders

LEMMA RunShownClean == ASSUME ScriptInv, CleanInv, RunShown PROVE CleanInv'
  <1>1. frames # <<>> /\ Head(frames).f = "shown"
    BY RunningClean DEF RunShown
  <1>2. UNCHANGED heapVars /\ frames' = <<>> \o Tail(frames) /\ UNCHANGED parseVars
    BY DEF RunShown, Goto
  <1>3. frames' = Tail(frames)
    BY <1>1, <1>2, Dropped DEF ScriptInv, ScriptTypes
  <1>4. CleanWaits
    BY <1>2, CleanSame DEF CleanWaits, CleanInv, heapVars, parseVars
  <1> QED BY <1>1, <1>3, <1>4, CleanLast DEF Enders

\* A value is pushed on bison's stack, and the heap has stayed clean.
LEMMA PushClean ==
    ASSUME ScriptInv, CleanInv, CleanHeap', Remain, frames # <<>>, Head(frames).f \in Pushers,
           NEW v, Push(v)
    PROVE  CleanInv'
  <1>1. CleanWaits /\ frames' = Tail(frames)
    BY DEF CleanWaits, Push, parseVars
  <1> QED BY <1>1, CleanLast DEF Enders, Pushers

LEMMA RunConditionClean == ASSUME ScriptInv, CleanInv, RunCondition PROVE CleanInv'
  <1>1. CASE Running("bool") /\ Push([bool |-> ToBoolean(Deref(ret))]) /\ UNCHANGED heapVars
    <2> DEFINE v == [bool |-> ToBoolean(Deref(ret))]
    <2>1. frames # <<>> /\ Head(frames).f \in Pushers /\ Push(v)
      BY <1>1, RunningClean DEF Pushers
    <2> HIDE DEF v
    <2> QED BY <1>1, <2>1, CleanSame, PushClean DEF CleanInv, heapVars
  <1>2. CASE /\ Running("neg")
             /\ NewTerm(Num(Wrap(-ToNumber(Deref(ret))))) /\ Push([ptr |-> NextPointer])
    <2> DEFINE k == Wrap(-ToNumber(Deref(ret)))
               v == [ptr |-> NextPointer]
    <2>1. frames # <<>> /\ Head(frames).f \in Pushers /\ NewTerm(Num(k)) /\ Push(v)
      BY <1>2, RunningClean DEF Pushers
    <2> HIDE DEF k, v
    <2>2. CleanTerm(Num(k), Resolvable)
      BY DEF CleanTerm, Num
    <2> QED BY <2>1, <2>2, CleanNewTerm, PushClean DEF CleanInv
  <1> QED BY <1>1, <1>2 DEF RunCondition

LEMMA RunCompareClean == ASSUME ScriptInv, CleanInv, RunCompare PROVE CleanInv'
  <1> DEFINE top == Head(frames)
  <1>1. CASE /\ Running("cmp") /\ UNCHANGED <<heapVars, ret>>
             /\ Goto(<<Resolve(top.right), [f |-> "compare", rel |-> top.rel, left |-> ret]>>)
    <2> DEFINE a == Resolve(top.right)
               b == [f |-> "compare", rel |-> top.rel, left |-> ret]
    <2>1. frames # <<>> /\ top.f = "cmp" /\ top.right \in Resolvable /\ ret \in PlainValues
      BY <1>1, RunningClean DEF Neat, Takes, Needs
    <2>2. ~Gives(top, Resolvable)
      BY <2>1 DEF Gives
    <2>3. /\ Neat(a, Resolvable, PlainValues) /\ a.f \notin Needs \cup {"result"}
          /\ Gives(a, Resolvable)
      BY <2>1, ResolveNeat DEF Resolvable
    <2>4. Neat(b, Resolvable, PlainValues)
      BY <2>1 DEF Neat
    <2>5. Goto(<<a, b>>) /\ UNCHANGED heapVars
      BY <1>1
    <2> HIDE DEF a, b
    <2> DEFINE new == <<a, b>>
    <2>6. new \in Seq({a, b}) /\ new # <<>> /\ new[1] = a /\ Goto(new)
      BY <2>5
    <2>7. NeatFrames(new, Resolvable, PlainValues)
      BY <2>3, <2>4, NeatTwo
    <2> HIDE DEF new
    <2> QED BY <2>1, <2>2, <2>3, <2>5, <2>6, <2>7, CleanGoto
  <1>2. CASE /\ Running("compare") /\ UNCHANGED heapVars
             /\ \E sign \in Compared(top.left, ret) : Push([bool |-> Holds(top.rel, sign)])
    <2>1. PICK sign : Push([bool |-> Holds(top.rel, sign)])
      BY <1>2
    <2> DEFINE v == [bool |-> Holds(top.rel, sign)]
    <2>2. frames # <<>> /\ top.f \in Pushers /\ Push(v)
      BY <1>2, <2>1, RunningClean DEF Pushers
    <2> HIDE DEF v
    <2> QED BY <1>2, <2>2, CleanSame, PushClean DEF CleanInv, heapVars
  <1> QED BY <1>1, <1>2 DEF RunCompare

\* The one comparison that has no answer.
LEMMA NoSign ==
    ASSUME NEW l, NEW r, Plain(l), Plain(r), Signs(l, r) = {}
    PROVE  l.kind = "string" /\ r.kind # "string"
  <1>1. CASE l.kind = "number"
    <2>1. CASE r.kind = "number"
      BY <1>1, <2>1 DEF Signs
    <2>2. CASE r.kind # "number"
      <3>1. Signs(l, r) = {-1, 0, 1}
        BY <1>1, <2>2 DEF Signs
      <3> QED BY <3>1
    <2> QED BY <2>1, <2>2
  <1>2. CASE l.kind = "boolean"
    <2>1. CASE r.kind = "boolean"
      <3>1. Signs(l, r) = {ToNumber(l) - ToNumber(r)}
        BY <1>2, <2>1 DEF Signs
      <3> QED BY <3>1
    <2>2. CASE r.kind # "boolean"
      <3>1. Signs(l, r) = {-1, 0, 1}
        BY <1>2, <2>2 DEF Signs
      <3> QED BY <3>1
    <2> QED BY <2>1, <2>2
  <1>3. CASE l.kind = "string"
    <2>1. CASE r.kind = "string"
      <3>1. CASE l.string = r.string
        <4>1. Signs(l, r) = {0}
          BY <1>3, <2>1, <3>1 DEF Signs
        <4> QED BY <4>1
      <3>2. CASE l.string # r.string
        <4>1. Signs(l, r) = {-1, 1}
          BY <1>3, <2>1, <3>2 DEF Signs
        <4> QED BY <4>1
      <3> QED BY <3>1, <3>2
    <2> QED BY <1>3, <2>1
  <1> QED BY <1>1, <1>2, <1>3 DEF Plain

\* A function reads a pointer that is none: the term is missing, or is not the string that
\* the other is.
LEMMA BadPointerClean ==
    ASSUME ScriptInv, CleanInv, BadPointer
    PROVE  CleanInv' /\ NullOnlyInCompare'
  <1> DEFINE top == Head(frames)
             l == Deref(top.left)
             r == Deref(ret)
  <1>1. /\ frames # <<>> /\ UNCHANGED <<gen, heap, variables, oldHeap, oldVariables>>
        /\ UNCHANGED <<frames, ret, result, parsing>>
    BY DEF BadPointer, NullDeref, scriptVars, parseVars
  <1>2. Neat(top, Resolvable, PlainValues) /\ Takes(top, ret, Resolvable, PlainValues)
    <2>1. 1 \in 1 .. Len(frames) /\ top = frames[1]
      BY <1>1, TopFrame, EmptySeq DEF ScriptInv, ScriptTypes
    <2> QED BY <1>1, <2>1 DEF CleanInv, CleanFrames, NeatFrames
  <1>3. \A p \in PlainValues : p # Null
    BY PlainIs
  <1>4. ~(top.f = "resolve" /\ top.ptr = Null)
    BY <1>2 DEF Neat
  <1>5. ~(top.f \in {"left", "right", "text", "bool", "neg", "sleep"} /\ ret = Null)
    BY <1>2, <1>3 DEF Takes, Needs
  <1>6. ~(\E i \in 1 .. Len(variables) : ~Inspects(variables[i].value))
    BY <1>3 DEF CleanInv, CleanHeap, Inspects
  <1>7. top.f = "compare" => top.left \in PlainValues /\ ret \in PlainValues
    BY <1>2 DEF Neat, Takes, Needs
  <1>8. top.f = "compare" /\ Compared(top.left, ret) = {}
    BY <1>4, <1>5, <1>6 DEF BadPointer
  <1>9. Plain(l) /\ Plain(r) /\ top.left # Null /\ ret # Null
    BY <1>3, <1>7, <1>8, PlainIs
  <1>10. l.kind = "string" /\ r.kind # "string"
    <2>1. Signs(l, r) = {}
      BY <1>8, <1>9 DEF Compared, Plain
    <2> HIDE DEF l, r
    <2> QED BY <1>9, <2>1, NoSign
  <1>11. Head(frames').f = "compare" /\ Deref(Head(frames).left)' = l /\ Deref(ret)' = r
    BY <1>1, <1>8 DEF Deref
  <1> QED BY <1>1, <1>10, <1>11, CleanUnchanged DEF NullOnlyInCompare

-----------------------------------------------------------------------------
(* What careful scripts are promised.                                      *)

LEMMA CleanNext ==
    ASSUME CarefulScripts, ScriptInv, CleanInv, Next
    PROVE  CleanInv'
  <1>1. ASSUME Run PROVE CleanInv'
    BY <1>1, RunResolveClean, RunAssignClean, RunLeftClean, RunRightClean, RunTextClean,
       RunPrintClean, RunGetenvClean, RunSetenvClean, RunSleepClean, RunVarsClean,
       RunPoweroffClean, RunResultClean, RunShownClean, RunConditionClean, RunCompareClean,
       BadPointerClean, SetDefaultsClean
       DEF Run
  <1>2. ASSUME Ended PROVE CleanInv'
    BY <1>2, CleanUnchanged DEF Ended, vars, heapVars, scriptVars, parseVars
  <1> QED BY <1>1, <1>2, ShiftClean, NewFunClean, LogicClean, EvaluateClean, SyntaxErrorClean,
             NextStatementClean, EndOfInputClean, EvalClean, CollectClean
             DEF Next

\* No other action but these kills PID 1 by a pointer.
LEMMA OnlyPointersKill ==
    ASSUME Next, halted' = "null"
    PROVE  BadPointer \/ Collect \/ UNCHANGED vars
  <1>1. \A t : NewTerm(t) => halted' # "null"
    BY DEF NewTerm, Alloc
  <1>2. \A n, p : SetVariable(n, p) => halted' # "null"
    BY DEF SetVariable, Alloc
  <1>3. ~RunResolve
    BY <1>1 DEF RunResolve, Running, heapVars
  <1>4. ~RunAssign /\ ~RunSetenv
    BY <1>1, <1>2 DEF RunAssign, RunSetenv, Running, heapVars
  <1>5. ~RunLeft /\ ~RunRight /\ ~RunPrint /\ ~RunGetenv /\ ~RunSleep /\ ~RunVars
    BY <1>1 DEF RunLeft, RunRight, RunPrint, RunGetenv, RunSleep, RunVars, Running, heapVars
  <1>6. ~RunText
    BY <1>1 DEF RunText, Running, heapVars
  <1>7. ~RunPoweroff /\ ~RunResult /\ ~RunShown /\ ~SetDefaults
    BY <1>1 DEF RunPoweroff, RunResult, RunShown, SetDefaults, Running, heapVars
  <1>8. ~RunCondition /\ ~RunCompare
    BY <1>1 DEF RunCondition, RunCompare, Running, heapVars
  <1>9. ~Shift /\ ~NewFun /\ ~Logic
    BY <1>1 DEF Shift, NewFun, Logic, Reducing, heapVars
  <1>10. ~Evaluate /\ ~SyntaxError /\ ~NextStatement /\ ~EndOfInput
    BY DEF Evaluate, SyntaxError, EndParse, NextStatement, EndOfInput, Reducing, heapVars
  <1>11. ~Eval
    BY DEF Eval, StartGc
  <1> QED BY <1>3, <1>4, <1>5, <1>6, <1>7, <1>8, <1>9, <1>10, <1>11 DEF Next, Run, Ended

LEMMA InitClean == Init => CleanInv /\ NullOnlyInCompare
  <1> SUFFICES ASSUME Init PROVE CleanInv /\ NullOnlyInCompare
    OBVIOUS
  <1>1. /\ frames = <<[f |-> "defaults"]>> /\ ~parsing /\ halted = "no"
        /\ heap = <<>> /\ variables = <<>> /\ oldVariables = <<>>
    BY DEF Init, HeapInit
  <1>2. 1 .. Len(heap) = {} /\ 1 .. Len(variables) = {} /\ 1 .. Len(oldVariables) = {}
    BY <1>1
  <1>3. CleanHeap
    BY <1>2 DEF CleanHeap
  <1>4. CleanFrames
    <2> DEFINE a == [f |-> "defaults"]
    <2>1. Neat(a, Resolvable, PlainValues) /\ a.f \notin Needs \cup {"result"}
      BY DEF Neat, Needs
    <2>2. frames = <<a>>
      BY <1>1
    <2> HIDE DEF a
    <2>3. NeatFrames(<<a>>, Resolvable, PlainValues)
      BY <2>1, NeatOne
    <2> QED BY <2>1, <2>2, <2>3 DEF CleanFrames, Takes
  <1> QED BY <1>1, <1>3, <1>4 DEF CleanInv, NullOnlyInCompare

\* In careful scripts, at any time: every variable leads to a string, a number or a boolean of
\* the heap in use, and every function that reads what another returned without looking is
\* given such a term.
THEOREM CleanAlways == CarefulScripts => (Spec => []CleanInv)
  <1> SUFFICES ASSUME CarefulScripts PROVE Spec => []CleanInv
    OBVIOUS
  <1>1. Init => CleanInv
    BY InitClean
  <1>2. ScriptInv /\ CleanInv /\ [Next]_vars => CleanInv'
    BY CleanNext, CleanUnchanged DEF vars, heapVars, scriptVars, parseVars
  <1> QED BY <1>1, <1>2, ScriptInvAlways, PTL DEF Spec

\* In careful scripts PID 1 is killed by a pointer nowhere but in term_compare(), and there
\* only for a string that is compared with a number or a boolean.
THEOREM NullOnlyInCompareAlways == CarefulScripts => (Spec => []NullOnlyInCompare)
  <1> SUFFICES ASSUME CarefulScripts PROVE Spec => []NullOnlyInCompare
    OBVIOUS
  <1>1. Init => NullOnlyInCompare
    BY InitClean
  <1>2. ScriptInv /\ CleanInv /\ NullOnlyInCompare /\ [Next]_vars => NullOnlyInCompare'
    <2> SUFFICES ASSUME ScriptInv, CleanInv, NullOnlyInCompare, [Next]_vars, halted' = "null"
                 PROVE  NullOnlyInCompare'
      BY DEF NullOnlyInCompare
    <2>1. CASE BadPointer
      BY <2>1, BadPointerClean
    <2>2. CASE UNCHANGED vars
      BY <2>2 DEF NullOnlyInCompare, Deref, vars, heapVars, scriptVars
    <2> QED BY <2>1, <2>2, OnlyPointersKill, CollectClean
  <1> QED BY <1>1, <1>2, ScriptInvAlways, CleanAlways, PTL DEF Spec
=============================================================================
