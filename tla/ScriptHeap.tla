----------------------------- MODULE ScriptHeap -----------------------------
(***************************************************************************)
(* The memory of the boot script's interpreter (script.c): terms are       *)
(* allocated one behind the other in a heap of fixed size and never freed  *)
(* one by one.  Before an input is evaluated, term_gc_heap() copies what   *)
(* the variables hold to a new heap and frees the old one.  Terms refer to *)
(* each other by pointers, and so do variables: an assignment stores the   *)
(* pointer of a term that another variable may hold too.                   *)
(*                                                                         *)
(* A pointer names the heap it leads to, so that one kept across a         *)
(* collection is seen to dangle.  Sizes are counted in the 8 bytes that    *)
(* alloc_heap() rounds up to; all strings have the same size.              *)
(***************************************************************************)
EXTENDS Integers, Sequences

CONSTANTS
    Names,         \* names of variables, which are also identifiers
    Strings,       \* contents of string terms
    Functions,     \* names in the function table
    HeapCells,     \* HEAP_SIZE
    StringCells,   \* what a string takes
    Null

TermCells == 4     \* sizeof(struct term)

Pointer == [gen : Nat, at : Nat \ {0}]

Term ==
    [kind : {"identifier"}, name : Names]
        \cup [kind : {"string"}, string : Strings]
        \cup [kind : {"number"}, number : Int]
        \cup [kind : {"boolean"}, boolean : BOOLEAN]
        \cup [kind : {"fun"}, fun : Functions, params : Seq(Pointer)]

Variable == [name : Names, value : Pointer \cup {Null}]

ASSUME HeapAssumption ==
    /\ HeapCells \in Nat
    /\ StringCells \in Nat
    /\ Null \notin Pointer

VARIABLES
    gen,           \* which heap is in use: each collection allocates another
    heap,          \* its terms
    used,          \* heap_index, in cells
    variables,     \* the list of variables, the newest first
    collecting,    \* inside term_gc_heap()
    oldHeap,       \* the heap it copies from
    oldVariables,  \* the variables it has not copied yet
    halted         \* how PID 1 ended: "no", "out_of_heap", "null", "stack" or "off"

heapVars ==
    <<gen, heap, used, variables, collecting, oldHeap, oldVariables, halted>>

-----------------------------------------------------------------------------
(* Terms.                                                                  *)

Deref(p) == IF p.gen = gen THEN heap[p.at] ELSE oldHeap[p.at]

\* Where the next term goes.
NextPointer == [gen |-> gen, at |-> Len(heap) + 1]

Cells(t) ==
    IF t.kind \in {"identifier", "string"} THEN TermCells + StringCells ELSE TermCells

\* Mutant: the heap is taken to be endless.
AllocUnchecked(cells) == used' = used + cells /\ UNCHANGED halted

\* alloc_heap() for cells more: PID 1 exits when they are not there.
Alloc(cells) ==
    IF used + cells > HeapCells
    THEN halted' = "out_of_heap" /\ UNCHANGED used
    ELSE used' = used + cells /\ UNCHANGED halted

\* The dereference of a NULL pointer: PID 1 is killed.
NullDeref ==
    /\ halted' = "null"
    /\ UNCHANGED <<gen, heap, used, variables, collecting, oldHeap, oldVariables>>

NewTerm(t) ==
    /\ halted = "no" /\ ~collecting
    /\ Alloc(Cells(t))
    /\ heap' = Append(heap, t)
    /\ UNCHANGED <<gen, variables, collecting, oldHeap, oldVariables>>

-----------------------------------------------------------------------------
(* Variables.                                                              *)

Found(list, n) == \E i \in 1 .. Len(list) : list[i].name = n

\* The entry that a walk from the head of the list finds.
Find(list, n) ==
    CHOOSE i \in 1 .. Len(list) :
        list[i].name = n /\ \A j \in 1 .. i - 1 : list[j].name # n

\* Mutant: every assignment makes a variable.
UpdatedAtHead(list, n, p) == <<[name |-> n, value |-> p]>> \o list

\* The list after set_variable(), and the cells that takes.
Updated(list, n, p) ==
    IF Found(list, n)
    THEN [list EXCEPT ![Find(list, n)].value = p]
    ELSE <<[name |-> n, value |-> p]>> \o list

UpdateCells(list, n) == IF Found(list, n) THEN 0 ELSE TermCells + StringCells

SetVariable(n, p) ==
    /\ halted = "no" /\ ~collecting
    /\ Alloc(UpdateCells(variables, n))
    /\ variables' = Updated(variables, n, p)
    /\ UNCHANGED <<gen, heap, collecting, oldHeap, oldVariables>>

-----------------------------------------------------------------------------
(* The collection.                                                         *)

StartGc ==
    /\ halted = "no" /\ ~collecting
    /\ gen' = gen + 1
    /\ oldHeap' = heap
    /\ oldVariables' = variables
    /\ heap' = <<>>
    /\ used' = 0
    /\ variables' = <<>>
    /\ collecting' = TRUE
    /\ UNCHANGED halted

\* Mutant: the pointer is copied and not the term.
CopyPointer ==
    /\ halted = "no" /\ oldVariables # <<>>
    /\ variables' = Updated(variables, Head(oldVariables).name, Head(oldVariables).value)
    /\ Alloc(UpdateCells(variables, Head(oldVariables).name))
    /\ oldVariables' = Tail(oldVariables)
    /\ UNCHANGED <<gen, heap, collecting, oldHeap>>

\* What term_dupe() copies; it returns NULL for a function call.
Duped(t) == t.kind # "fun"

\* set_variable(name, term_dupe(value)) for the first variable that is left.
\* term_dupe() reads the term's kind, so there must be a term.
CopyVariable ==
    /\ halted = "no" /\ oldVariables # <<>>
    /\ LET v == Head(oldVariables)
       IN \/ v.value = Null /\ NullDeref
          \/ /\ v.value # Null
             /\ LET t == Deref(v.value)
                    copied == Duped(t)
                IN /\ heap' = IF copied THEN Append(heap, t) ELSE heap
                   /\ variables' = Updated(variables, v.name, IF copied THEN NextPointer ELSE Null)
                   /\ Alloc((IF copied THEN Cells(t) ELSE 0) + UpdateCells(variables, v.name))
             /\ oldVariables' = Tail(oldVariables)
             /\ UNCHANGED <<gen, collecting, oldHeap>>

\* Mutant: the loop over the variables stops before the last one.
FreeOldHeapEarly ==
    /\ halted = "no" /\ collecting /\ Len(oldVariables) <= 1
    /\ collecting' = FALSE
    /\ oldHeap' = <<>>
    /\ oldVariables' = <<>>
    /\ UNCHANGED <<gen, heap, used, variables, halted>>

FreeOldHeap ==
    /\ halted = "no" /\ collecting /\ oldVariables = <<>>
    /\ collecting' = FALSE
    /\ oldHeap' = <<>>
    /\ UNCHANGED <<gen, heap, used, variables, oldVariables, halted>>

Gc == StartGc \/ CopyVariable \/ FreeOldHeap

-----------------------------------------------------------------------------
(* What the rest of the program may do: allocate terms, set a variable to  *)
(* a term of the heap or to NULL, run into a NULL pointer or the end of    *)
(* its stack, and power off.                                               *)

\* Pointers to terms that are there.
Live(p) == p \in Pointer /\ p.gen = gen /\ p.at <= Len(heap)

LivePointers == [gen : {gen}, at : 1 .. Len(heap)]

WellFormed(t) ==
    t \in Term /\ (t.kind = "fun" => \A i \in DOMAIN t.params : Live(t.params[i]))

HeapInit ==
    /\ gen = 1
    /\ heap = <<>>
    /\ used = 0
    /\ variables = <<>>
    /\ collecting = FALSE
    /\ oldHeap = <<>>
    /\ oldVariables = <<>>
    /\ halted = "no"

HeapNext ==
    \/ \E i \in DOMAIN heap' : WellFormed(heap'[i]) /\ NewTerm(heap'[i])
    \/ \E n \in Names, p \in LivePointers \cup {Null} : SetVariable(n, p)
    \/ Gc
    \/ /\ halted = "no"
       /\ halted' \in {"null", "stack", "off"}
       /\ UNCHANGED <<gen, heap, used, variables, collecting, oldHeap, oldVariables>>

HeapSpec == HeapInit /\ [][HeapNext]_heapVars

-----------------------------------------------------------------------------
(* Properties.                                                             *)

\* The heap never holds more than it has room for, and what remains to be
\* copied is there only while term_gc_heap() runs.
HeapTypeOK ==
    /\ gen \in Nat /\ used \in 0 .. HeapCells
    /\ heap \in Seq(Term) /\ oldHeap \in Seq(Term)
    /\ variables \in Seq(Variable) /\ oldVariables \in Seq(Variable)
    /\ collecting \in BOOLEAN
    /\ halted \in {"no", "out_of_heap", "null", "stack", "off"}
    /\ ~collecting => oldVariables = <<>>

\* get_variable() and set_variable() stop at the first entry of a name: a name
\* is in the list once, also while a collection moves the entries to a new list.
NamedOnce ==
    /\ \A i, j \in 1 .. Len(variables) : variables[i].name = variables[j].name => i = j
    /\ \A i, j \in 1 .. Len(oldVariables) :
           oldVariables[i].name = oldVariables[j].name => i = j
    /\ \A i \in 1 .. Len(variables), j \in 1 .. Len(oldVariables) :
           variables[i].name # oldVariables[j].name

\* No variable points into a heap that term_gc_heap() has freed, and no term it
\* copied points there.
NoDangling ==
    /\ \A i \in 1 .. Len(variables) :
           variables[i].value = Null \/ Live(variables[i].value)
    /\ \A i \in 1 .. Len(oldVariables) :
           LET p == oldVariables[i].value
           IN p = Null \/ (p \in Pointer /\ p.gen = gen - 1 /\ p.at <= Len(oldHeap))
    /\ \A i \in 1 .. Len(heap) : WellFormed(heap[i])

\* What a variable holds, wherever its entry is.  A function call is no value: it is
\* there only where a function returned its unevaluated parameter, and is not copied.
Held(p) == IF p = Null THEN Null ELSE IF Deref(p).kind = "fun" THEN Null ELSE Deref(p)

Meaning(n) ==
    IF Found(variables, n) THEN Held(variables[Find(variables, n)].value)
    ELSE IF Found(oldVariables, n) THEN Held(oldVariables[Find(oldVariables, n)].value)
    ELSE [kind |-> "unset"]

-----------------------------------------------------------------------------
\* The variables are a map from names to values.
Store == INSTANCE VarStore WITH
    Values  <- {t \in Term : Duped(t)},
    NoValue <- Null,
    Unset   <- [kind |-> "unset"],
    store   <- [n \in Names |-> Meaning(n)],
    status  <- IF halted # "no" THEN "ended" ELSE IF collecting THEN "collecting" ELSE "running"

\* Variables that share a term, a list rebuilt in the reverse order and terms that move:
\* an assignment still changes one name, and a collection none (script.c:49-68, 332-404).
KeepsVariables == Store!Spec
=============================================================================
