-------------------------- MODULE ScriptHeapProofs --------------------------
(***************************************************************************)
(* What ScriptHeap guarantees for any names, strings, functions and sizes, *)
(* and however many collections.  HeapInv is inductive because its parts   *)
(* lean on each other: a collection copies a term only because the old     *)
(* list's pointers lead into the old heap, and does not merge two          *)
(* variables only because no name is in both lists.                        *)
(***************************************************************************)
EXTENDS ScriptHeap, SequenceTheorems, TLAPS

HeapInv == HeapTypeOK /\ NamedOnce /\ NoDangling

-----------------------------------------------------------------------------
(* Lists of variables.                                                     *)

Once(list) == \A i, j \in 1 .. Len(list) : list[i].name = list[j].name => i = j

\* In a list that has a name once, the walk finds that entry.
LEMMA FindIs ==
    ASSUME NEW list, Once(list), NEW i \in 1 .. Len(list)
    PROVE  Found(list, list[i].name) /\ Find(list, list[i].name) = i
  <1> DEFINE P(k) == list[k].name = list[i].name /\ \A j \in 1 .. k - 1 : list[j].name # list[i].name
  <1>1. \A j \in 1 .. i - 1 : j \in 1 .. Len(list) /\ j # i
    OBVIOUS
  <1>2. P(i)
    BY <1>1 DEF Once
  <1>3. \A k \in 1 .. Len(list) : P(k) => k = i
    BY DEF Once
  <1> HIDE DEF P
  <1>4. (CHOOSE k \in 1 .. Len(list) : P(k)) = i
    BY <1>2, <1>3
  <1> QED BY <1>4 DEF P, Found, Find

LEMMA FindProperties ==
    ASSUME NEW list, Once(list), NEW n, Found(list, n)
    PROVE  Find(list, n) \in 1 .. Len(list) /\ list[Find(list, n)].name = n
  <1>1. PICK i \in 1 .. Len(list) : list[i].name = n
    BY DEF Found
  <1> QED BY <1>1, FindIs

LEMMA Prepended ==
    ASSUME NEW S, NEW s \in Seq(S), NEW x \in S
    PROVE  LET t == <<x>> \o s
           IN /\ t \in Seq(S)
              /\ Len(t) = Len(s) + 1
              /\ t[1] = x
              /\ \A i \in 1 .. Len(s) : t[i + 1] = s[i]
  <1>1. <<x>> \in Seq(S) /\ Len(<<x>>) = 1 /\ <<x>>[1] = x
    OBVIOUS
  <1>2. Len(s) \in Nat
    OBVIOUS
  <1> QED BY <1>1, <1>2, ConcatProperties

\* set_variable(): the name has the new value, the others keep theirs, and every name
\* is there once.
LEMMA UpdatedProperties ==
    ASSUME NEW list \in Seq(Variable), Once(list),
           NEW n \in Names, NEW p \in Pointer \cup {Null}
    PROVE  LET new == Updated(list, n, p)
           IN /\ new \in Seq(Variable) /\ Once(new)
              /\ \A i \in 1 .. Len(new) :
                     \/ new[i] = [name |-> n, value |-> p]
                     \/ \E j \in 1 .. Len(list) : new[i] = list[j] /\ list[j].name # n
              /\ \E i \in 1 .. Len(new) : new[i] = [name |-> n, value |-> p]
              /\ \A j \in 1 .. Len(list) :
                     list[j].name # n => \E i \in 1 .. Len(new) : new[i] = list[j]
  <1> DEFINE v == [name |-> n, value |-> p]
  <1>1. v \in Variable
    BY DEF Variable
  <1>2. CASE Found(list, n)
    <2> DEFINE k == Find(list, n)
               new == [list EXCEPT ![k].value = p]
    <2>1. k \in 1 .. Len(list) /\ list[k].name = n /\ list[k] \in Variable
      BY <1>2, FindProperties
    <2>2. new[k] = v
      BY <2>1 DEF Variable
    <2>3. \A i \in 1 .. Len(list) : i # k => new[i] = list[i] /\ list[i].name # n
      BY <2>1 DEF Once
    <2>4. new \in Seq(Variable) /\ Len(new) = Len(list)
      BY <2>1, <2>2, <1>1 DEF Variable
    <2>5. \A i \in 1 .. Len(list) : new[i].name = list[i].name
      BY <2>1, <2>2, <2>3
    <2>6. Once(new)
      BY <2>4, <2>5 DEF Once
    <2> QED BY <1>2, <2>1, <2>2, <2>3, <2>4, <2>6 DEF Updated
  <1>3. CASE ~Found(list, n)
    <2> DEFINE new == <<v>> \o list
    <2>1. /\ new \in Seq(Variable) /\ Len(new) = Len(list) + 1 /\ new[1] = v
          /\ \A i \in 1 .. Len(list) : new[i + 1] = list[i]
      BY <1>1, Prepended
    <2>2. \A i \in 1 .. Len(list) : list[i].name # n
      BY <1>3 DEF Found
    <2> HIDE DEF new
    <2>3. \A i \in 1 .. Len(new) : i = 1 \/ (i - 1 \in 1 .. Len(list) /\ new[i] = list[i - 1])
      BY <2>1
    <2>4. Once(new)
      <3> SUFFICES ASSUME NEW i \in 1 .. Len(new), NEW j \in 1 .. Len(new),
                          new[i].name = new[j].name
                   PROVE  i = j
        BY DEF Once
      <3>1. CASE i = 1 \/ j = 1
        <4>1. new[1].name = n
          BY <2>1
        <4>2. \A k \in 1 .. Len(new) : k # 1 => new[k].name # n
          BY <2>2, <2>3
        <4> QED BY <3>1, <4>1, <4>2
      <3>2. CASE i # 1 /\ j # 1
        <4>1. /\ i - 1 \in 1 .. Len(list) /\ j - 1 \in 1 .. Len(list)
              /\ list[i - 1].name = list[j - 1].name
          BY <3>2, <2>3
        <4>2. i - 1 = j - 1
          BY <4>1 DEF Once
        <4> QED BY <4>2
      <3> QED BY <3>1, <3>2
    <2>5. \A i \in 1 .. Len(list) : i + 1 \in 1 .. Len(new)
      BY <2>1
    <2>6. Updated(list, n, p) = new
      BY <1>3 DEF Updated, new
    <2>7. 1 \in 1 .. Len(new)
      BY <2>1
    <2> QED BY <2>1, <2>2, <2>3, <2>4, <2>5, <2>6, <2>7
  <1> QED BY <1>2, <1>3

-----------------------------------------------------------------------------
(* The invariant.                                                          *)

LEMMA AllocProperties ==
    ASSUME used \in 0 .. HeapCells, halted = "no", NEW cells \in Nat, Alloc(cells)
    PROVE  used' \in 0 .. HeapCells /\ halted' \in {"no", "out_of_heap"}
  BY HeapAssumption DEF Alloc

LEMMA CellCounts ==
    /\ \A t \in Term : Cells(t) \in Nat
    /\ \A list, n : UpdateCells(list, n) \in Nat
  BY HeapAssumption DEF Cells, UpdateCells, TermCells

LEMMA NewTermStep ==
    ASSUME HeapInv, NEW t, WellFormed(t), NewTerm(t)
    PROVE  HeapInv'
  <1> USE DEF HeapInv, NewTerm
  <1>1. t \in Term
    BY DEF WellFormed
  <1>2. heap \in Seq(Term) /\ Len(heap) \in Nat
    BY DEF HeapTypeOK
  <1>3. /\ heap' \in Seq(Term) /\ Len(heap') = Len(heap) + 1
        /\ heap'[Len(heap) + 1] = t
        /\ \A i \in 1 .. Len(heap) : heap'[i] = heap[i]
    BY <1>1, <1>2
  <1>4. HeapTypeOK'
    BY <1>1, <1>3, AllocProperties, CellCounts DEF HeapTypeOK
  <1>5. NamedOnce'
    BY DEF NamedOnce
  <1>6. \A p : Live(p) => Live(p)'
    BY <1>2, <1>3 DEF Live, Pointer
  <1>7. \A u : WellFormed(u) => WellFormed(u)'
    BY <1>6 DEF WellFormed
  <1>8. \A i \in 1 .. Len(heap') : heap'[i] = t \/ \E j \in 1 .. Len(heap) : heap'[i] = heap[j]
    BY <1>2, <1>3
  <1>9. NoDangling'
    BY <1>6, <1>7, <1>8 DEF NoDangling
  <1> QED BY <1>4, <1>5, <1>9

LEMMA SetVariableStep ==
    ASSUME HeapInv, NEW n \in Names, NEW p \in LivePointers \cup {Null}, SetVariable(n, p)
    PROVE  HeapInv'
  <1> USE DEF HeapInv, SetVariable
  <1>1. gen \in Nat /\ Len(heap) \in Nat
    BY DEF HeapTypeOK
  <1>2. p = Null \/ Live(p)
    BY <1>1 DEF LivePointers, Live, Pointer
  <1>3. p \in Pointer \cup {Null}
    BY <1>2 DEF Live
  <1>4. variables \in Seq(Variable) /\ Once(variables) /\ oldVariables = <<>>
    BY DEF HeapTypeOK, NamedOnce, Once
  <1>5. /\ variables' \in Seq(Variable) /\ Once(variables)'
        /\ \A i \in 1 .. Len(variables') :
               \/ variables'[i] = [name |-> n, value |-> p]
               \/ \E j \in 1 .. Len(variables) : variables'[i] = variables[j]
    BY <1>3, <1>4, UpdatedProperties DEF Once
  <1>6. HeapTypeOK'
    BY <1>5, AllocProperties, CellCounts DEF HeapTypeOK
  <1>7. NamedOnce'
    BY <1>4, <1>5 DEF NamedOnce, Once
  <1>8. NoDangling'
    BY <1>2, <1>4, <1>5 DEF NoDangling, Live, WellFormed
  <1> QED BY <1>6, <1>7, <1>8

LEMMA StartGcStep ==
    ASSUME HeapInv, StartGc
    PROVE  HeapInv'
  <1> USE DEF HeapInv, StartGc
  <1>1. HeapTypeOK'
    BY HeapAssumption DEF HeapTypeOK
  <1>2. NamedOnce'
    BY DEF NamedOnce
  <1>3. NoDangling'
    BY HeapAssumption DEF NoDangling, Live, HeapTypeOK
  <1> QED BY <1>1, <1>2, <1>3

LEMMA FreeOldHeapStep ==
    ASSUME HeapInv, FreeOldHeap
    PROVE  HeapInv'
  <1> USE DEF HeapInv, FreeOldHeap
  <1>1. HeapTypeOK'
    <2>1. oldHeap' \in Seq(Term)
      OBVIOUS
    <2> QED BY <2>1 DEF HeapTypeOK
  <1>2. NamedOnce'
    BY DEF NamedOnce
  <1>3. NoDangling'
    BY DEF NoDangling, Live, WellFormed
  <1> QED BY <1>1, <1>2, <1>3

\* The step of a collection that copies a variable: what it copies, and where to.
LEMMA CopyProperties ==
    ASSUME HeapInv, NEW v, oldVariables # <<>>, v = Head(oldVariables), v.value # Null
    PROVE  /\ collecting /\ v \in Variable /\ v = oldVariables[1]
           /\ ~Found(variables, v.name)
           /\ Deref(v.value) = oldHeap[v.value.at] /\ Deref(v.value) \in Term
           /\ NextPointer \in Pointer
           /\ Tail(oldVariables) \in Seq(Variable)
           /\ Len(Tail(oldVariables)) = Len(oldVariables) - 1
           /\ \A i \in 1 .. Len(Tail(oldVariables)) : Tail(oldVariables)[i] = oldVariables[i + 1]
  <1> USE DEF HeapInv
  <1>1. /\ oldVariables \in Seq(Variable) /\ oldHeap \in Seq(Term) /\ collecting
        /\ gen \in Nat /\ Len(heap) \in Nat
    BY DEF HeapTypeOK
  <1>2. 1 \in 1 .. Len(oldVariables) /\ v = oldVariables[1] /\ v \in Variable
    BY <1>1
  <1>3. v.value \in Pointer /\ v.value.gen = gen - 1 /\ v.value.at <= Len(oldHeap)
    BY <1>2 DEF NoDangling
  <1>4. v.value.at \in 1 .. Len(oldHeap) /\ v.value.gen # gen
    BY <1>1, <1>3 DEF Pointer
  <1>5. Deref(v.value) = oldHeap[v.value.at] /\ Deref(v.value) \in Term
    BY <1>1, <1>4 DEF Deref
  <1>6. ~Found(variables, v.name)
    BY <1>2 DEF NamedOnce, Found
  <1>7. NextPointer \in Pointer
    BY <1>1 DEF NextPointer, Pointer
  <1> QED BY <1>1, <1>2, <1>5, <1>6, <1>7

LEMMA CopyVariableStep ==
    ASSUME HeapInv, CopyVariable
    PROVE  HeapInv'
  <1> USE DEF HeapInv
  <1> DEFINE v == Head(oldVariables)
             t == Deref(v.value)
             p == IF Duped(t) THEN NextPointer ELSE Null
  <1>1. CASE v.value = Null
    <2>1. /\ halted' = "null"
          /\ UNCHANGED <<gen, heap, used, variables, collecting, oldHeap, oldVariables>>
      BY <1>1 DEF CopyVariable, NullDeref
    <2> QED BY <2>1 DEF HeapTypeOK, NamedOnce, NoDangling, Live, WellFormed
  <1>2. CASE v.value # Null
    <2>1. /\ halted = "no" /\ oldVariables # <<>>
          /\ heap' = IF Duped(t) THEN Append(heap, t) ELSE heap
          /\ variables' = Updated(variables, v.name, p)
          /\ Alloc((IF Duped(t) THEN Cells(t) ELSE 0) + UpdateCells(variables, v.name))
          /\ oldVariables' = Tail(oldVariables)
          /\ UNCHANGED <<gen, collecting, oldHeap>>
      BY <1>2 DEF CopyVariable
    <2>2. /\ collecting /\ v \in Variable /\ v = oldVariables[1]
          /\ ~Found(variables, v.name)
          /\ t \in Term
          /\ NextPointer \in Pointer
          /\ Tail(oldVariables) \in Seq(Variable)
          /\ Len(Tail(oldVariables)) = Len(oldVariables) - 1
          /\ \A i \in 1 .. Len(Tail(oldVariables)) : Tail(oldVariables)[i] = oldVariables[i + 1]
      BY <1>2, <2>1, CopyProperties
    <2>3. /\ heap \in Seq(Term) /\ Len(heap) \in Nat /\ variables \in Seq(Variable)
          /\ oldVariables \in Seq(Variable) /\ Len(oldVariables) \in Nat /\ Once(variables)
      BY DEF HeapTypeOK, NamedOnce, Once
    <2> HIDE DEF t, v
    <2>4. v.name \in Names /\ p \in Pointer \cup {Null}
      BY <2>2 DEF Variable
    <2>5. /\ heap' \in Seq(Term) /\ Len(heap') >= Len(heap)
          /\ \A i \in 1 .. Len(heap) : heap'[i] = heap[i]
          /\ \A i \in 1 .. Len(heap') :
                 (heap'[i] = t /\ Duped(t)) \/ \E j \in 1 .. Len(heap) : heap'[i] = heap[j]
      BY <2>1, <2>2, <2>3
    <2>6. /\ variables' \in Seq(Variable) /\ Once(variables)'
          /\ \A i \in 1 .. Len(variables') :
                 \/ variables'[i] = [name |-> v.name, value |-> p]
                 \/ \E j \in 1 .. Len(variables) : variables'[i] = variables[j]
      <3> DEFINE new == Updated(variables, v.name, p)
      <3>1. /\ new \in Seq(Variable) /\ Once(new)
            /\ \A i \in 1 .. Len(new) :
                   \/ new[i] = [name |-> v.name, value |-> p]
                   \/ \E j \in 1 .. Len(variables) : new[i] = variables[j]
        <4> HIDE DEF p
        <4> QED BY <2>3, <2>4, UpdatedProperties
      <3>2. variables' = new
        BY <2>1
      <3> HIDE DEF new
      <3> QED BY <3>1, <3>2 DEF Once
    <2>7. HeapTypeOK'
      <3>1. (IF Duped(t) THEN Cells(t) ELSE 0) + UpdateCells(variables, v.name) \in Nat
        BY <2>2, CellCounts
      <3>2. used' \in 0 .. HeapCells /\ halted' \in {"no", "out_of_heap"}
        BY <2>1, <3>1, AllocProperties DEF HeapTypeOK
      <3> QED BY <2>1, <2>2, <2>5, <2>6, <3>2 DEF HeapTypeOK
    <2>8. NamedOnce'
      <3>1. \A i \in 1 .. Len(oldVariables') :
               i + 1 \in 1 .. Len(oldVariables) /\ oldVariables'[i] = oldVariables[i + 1]
        BY <2>1, <2>2, <2>3
      <3>2. Once(oldVariables')
        <4>1. \A i, j \in 1 .. Len(oldVariables') :
                 oldVariables'[i].name = oldVariables'[j].name => i + 1 = j + 1
          BY <3>1 DEF NamedOnce
        <4> QED BY <4>1, <2>1, <2>2, <2>3 DEF Once
      <3>3. \A i \in 1 .. Len(oldVariables') : oldVariables'[i].name # v.name
        <4>1. 1 \in 1 .. Len(oldVariables)
          BY <2>1, <2>3
        <4>2. \A i \in 1 .. Len(oldVariables') : i + 1 # 1
          BY <2>1, <2>2, <2>3
        <4> QED BY <3>1, <4>1, <4>2, <2>2 DEF NamedOnce
      <3>4. \A i \in 1 .. Len(variables'), j \in 1 .. Len(oldVariables') :
               variables'[i].name # oldVariables'[j].name
        <4> SUFFICES ASSUME NEW i \in 1 .. Len(variables'), NEW j \in 1 .. Len(oldVariables')
                     PROVE  variables'[i].name # oldVariables'[j].name
          OBVIOUS
        <4>1. CASE variables'[i] = [name |-> v.name, value |-> p]
          BY <4>1, <3>3
        <4>2. ASSUME NEW k \in 1 .. Len(variables), variables'[i] = variables[k]
              PROVE  variables'[i].name # oldVariables'[j].name
          BY <4>2, <3>1 DEF NamedOnce
        <4> QED BY <2>6, <4>1, <4>2
      <3> QED BY <2>6, <3>2, <3>4 DEF NamedOnce, Once
    <2>9. NoDangling'
      <3>1. \A q : Live(q) => Live(q)'
        BY <2>1, <2>3, <2>5 DEF Live, Pointer
      <3>2. \A q : q = p => q = Null \/ Live(q)'
        BY <2>1, <2>2, <2>3 DEF Live, NextPointer
      <3>3. \A i \in 1 .. Len(variables') : \A q : q = variables'[i].value => q = Null \/ Live(q)'
        <4> SUFFICES ASSUME NEW i \in 1 .. Len(variables'), NEW q, q = variables'[i].value
                     PROVE  q = Null \/ Live(q)'
          OBVIOUS
        <4>1. CASE variables'[i] = [name |-> v.name, value |-> p]
          BY <4>1, <3>2
        <4>2. ASSUME NEW k \in 1 .. Len(variables), variables'[i] = variables[k]
              PROVE  q = Null \/ Live(q)'
          BY <4>2, <3>1 DEF NoDangling
        <4> QED BY <2>6, <4>1, <4>2
      <3>4. \A i \in 1 .. Len(heap') : \A u : u = heap'[i] => WellFormed(u)'
        BY <2>2, <2>5, <3>1 DEF NoDangling, WellFormed, Duped
      <3>5. \A i \in 1 .. Len(oldVariables') :
               i + 1 \in 1 .. Len(oldVariables) /\ oldVariables'[i] = oldVariables[i + 1]
        BY <2>1, <2>2, <2>3
      <3> QED BY <2>1, <3>3, <3>4, <3>5 DEF NoDangling
    <2> QED BY <2>7, <2>8, <2>9
  <1> QED BY <1>1, <1>2

LEMMA HeapInitInv == HeapInit => HeapInv
  <1> SUFFICES ASSUME HeapInit PROVE HeapInv
    OBVIOUS
  <1>1. <<>> \in Seq(Term) /\ <<>> \in Seq(Variable)
    OBVIOUS
  <1>2. HeapTypeOK
    <2>1. gen \in Nat /\ used \in 0 .. HeapCells
      BY HeapAssumption DEF HeapInit
    <2>2. heap \in Seq(Term) /\ oldHeap \in Seq(Term)
      BY <1>1 DEF HeapInit
    <2>3. variables \in Seq(Variable) /\ oldVariables \in Seq(Variable)
      BY <1>1 DEF HeapInit
    <2> QED BY <2>1, <2>2, <2>3 DEF HeapInit, HeapTypeOK
  <1>3. NamedOnce /\ NoDangling
    BY DEF HeapInit, NamedOnce, NoDangling
  <1> QED BY <1>2, <1>3 DEF HeapInv

THEOREM HeapInvAlways == HeapSpec => []HeapInv
  <1>1. HeapInit => HeapInv
    BY HeapInitInv
  <1>2. HeapInv /\ [HeapNext]_heapVars => HeapInv'
    <2> SUFFICES ASSUME HeapInv, [HeapNext]_heapVars PROVE HeapInv'
      OBVIOUS
    <2>1. ASSUME NEW i \in DOMAIN heap', WellFormed(heap'[i]), NewTerm(heap'[i]) PROVE HeapInv'
      BY <2>1, NewTermStep
    <2>2. ASSUME NEW n \in Names, NEW p \in LivePointers \cup {Null}, SetVariable(n, p)
          PROVE  HeapInv'
      BY <2>2, SetVariableStep
    <2>3. CASE Gc
      BY <2>3, StartGcStep, CopyVariableStep, FreeOldHeapStep DEF Gc
    <2>4. CASE /\ halted = "no" /\ halted' \in {"null", "stack", "off"}
               /\ UNCHANGED <<gen, heap, used, variables, collecting, oldHeap, oldVariables>>
      BY <2>4 DEF HeapInv, HeapTypeOK, NamedOnce, NoDangling, Live, WellFormed
    <2>5. CASE UNCHANGED heapVars
      BY <2>5 DEF heapVars, HeapInv, HeapTypeOK, NamedOnce, NoDangling, Live, WellFormed
    <2> QED BY <2>1, <2>2, <2>3, <2>4, <2>5 DEF HeapNext
  <1> QED BY <1>1, <1>2, PTL DEF HeapSpec

-----------------------------------------------------------------------------
(* A collection keeps every value, and an assignment all values but one.   *)

Kept == \A n \in Names : Meaning(n)' = Meaning(n)

LEMMA StartGcKeeps ==
    ASSUME HeapInv, StartGc
    PROVE  Kept
  <1> USE DEF HeapInv
  <1> SUFFICES ASSUME NEW n \in Names PROVE Meaning(n)' = Meaning(n)
    BY DEF Kept
  <1>1. /\ oldVariables = <<>> /\ variables' = <<>> /\ oldVariables' = variables
        /\ oldHeap' = heap /\ gen' = gen + 1 /\ gen \in Nat
    BY DEF StartGc, HeapTypeOK
  <1>2. ~Found(oldVariables, n) /\ ~Found(variables', n)
    BY <1>1 DEF Found
  <1>3. CASE Found(variables, n)
    <2> DEFINE q == variables[Find(variables, n)].value
    <2>1. q = Null \/ Live(q)
      BY <1>3, FindProperties DEF NoDangling, NamedOnce, Once
    <2>2. \A r : Live(r) => Held(r)' = Held(r)
      BY <1>1 DEF Live, Held, Deref
    <2>3. Meaning(n) = Held(q)
      BY <1>3 DEF Meaning
    <2>4. \A r : r = q => Meaning(n)' = Held(r)'
      BY <1>1, <1>2, <1>3 DEF Meaning
    <2>5. \A r : r = Null => Held(r)' = Held(r)
      BY DEF Held
    <2> QED BY <2>1, <2>2, <2>3, <2>4, <2>5
  <1>4. CASE ~Found(variables, n)
    BY <1>1, <1>2, <1>4 DEF Meaning
  <1> QED BY <1>3, <1>4

LEMMA FreeOldHeapKeeps ==
    ASSUME HeapInv, FreeOldHeap
    PROVE  Kept
  <1> USE DEF HeapInv
  <1> SUFFICES ASSUME NEW n \in Names PROVE Meaning(n)' = Meaning(n)
    BY DEF Kept
  <1>1. /\ oldVariables = <<>> /\ oldVariables' = <<>> /\ variables' = variables
        /\ heap' = heap /\ gen' = gen
    BY DEF FreeOldHeap
  <1>2. ~Found(oldVariables, n)
    BY <1>1 DEF Found
  <1>3. CASE Found(variables, n)
    <2> DEFINE q == variables[Find(variables, n)].value
    <2>1. q = Null \/ Live(q)
      BY <1>3, FindProperties DEF NoDangling, NamedOnce, Once
    <2>2. \A r : r = Null \/ Live(r) => Held(r)' = Held(r)
      BY <1>1 DEF Live, Held, Deref
    <2>3. Meaning(n) = Held(q)
      BY <1>3 DEF Meaning
    <2>4. \A r : r = q => Meaning(n)' = Held(r)'
      BY <1>1, <1>3 DEF Meaning
    <2> QED BY <2>1, <2>2, <2>3, <2>4
  <1>4. CASE ~Found(variables, n)
    BY <1>1, <1>2, <1>4 DEF Meaning
  <1> QED BY <1>3, <1>4

LEMMA CopyVariableKeeps ==
    ASSUME HeapInv, CopyVariable, Head(oldVariables).value # Null
    PROVE  Kept
  <1> USE DEF HeapInv
  <1> DEFINE v == Head(oldVariables)
             t == Deref(v.value)
             p == IF Duped(t) THEN NextPointer ELSE Null
  <1> SUFFICES ASSUME NEW n \in Names PROVE Meaning(n)' = Meaning(n)
    BY DEF Kept
  <1>1. /\ v.value # Null /\ oldVariables # <<>>
        /\ heap' = IF Duped(t) THEN Append(heap, t) ELSE heap
        /\ variables' = Updated(variables, v.name, p)
        /\ oldVariables' = Tail(oldVariables)
        /\ gen' = gen /\ oldHeap' = oldHeap
    BY DEF CopyVariable, NullDeref
  <1>2. /\ v \in Variable /\ v = oldVariables[1]
        /\ ~Found(variables, v.name)
        /\ t \in Term
        /\ NextPointer \in Pointer
        /\ Tail(oldVariables) \in Seq(Variable)
        /\ Len(Tail(oldVariables)) = Len(oldVariables) - 1
        /\ \A i \in 1 .. Len(Tail(oldVariables)) : Tail(oldVariables)[i] = oldVariables[i + 1]
    BY <1>1, CopyProperties
  <1>3. /\ gen \in Nat /\ heap \in Seq(Term) /\ Len(heap) \in Nat
        /\ variables \in Seq(Variable) /\ Once(variables)
        /\ oldVariables \in Seq(Variable) /\ Len(oldVariables) \in Nat /\ Once(oldVariables)
    BY DEF HeapTypeOK, NamedOnce, Once
  <1>4. Held(v.value) = IF Duped(t) THEN t ELSE Null
    BY <1>1 DEF Held, Duped
  <1>5. \A r : r = p => Held(r)' = IF Duped(t) THEN t ELSE Null
    <2>1. CASE ~Duped(t)
      BY <2>1 DEF Held
    <2>2. CASE Duped(t)
      <3>1. heap'[Len(heap) + 1] = t
        BY <1>1, <1>2, <1>3, <2>2
      <3>2. NextPointer # Null /\ NextPointer.gen = gen /\ NextPointer.at = Len(heap) + 1
        BY <1>2, HeapAssumption DEF NextPointer
      <3>3. \A r : r = p => Deref(r)' = t
        BY <1>1, <2>2, <3>1, <3>2 DEF Deref
      <3> QED BY <2>2, <3>2, <3>3 DEF Held, Duped
    <2> QED BY <2>1, <2>2
  <1>6. \A r : r = Null \/ Live(r) => Held(r)' = Held(r)
    BY <1>1, <1>3 DEF Held, Deref, Live, Pointer
  <1>7. \A r : r = Null \/ (r \in Pointer /\ r.gen = gen - 1) => Held(r)' = Held(r)
    BY <1>1, <1>3 DEF Held, Deref, Pointer
  <1> HIDE DEF t, v
  <1>8. v.name \in Names /\ p \in Pointer \cup {Null}
    BY <1>2 DEF Variable
  <1>9. /\ Once(variables')
        /\ \A i \in 1 .. Len(variables') :
               \/ variables'[i] = [name |-> v.name, value |-> p]
               \/ \E j \in 1 .. Len(variables) :
                      variables'[i] = variables[j] /\ variables[j].name # v.name
        /\ \E i \in 1 .. Len(variables') : variables'[i] = [name |-> v.name, value |-> p]
        /\ \A j \in 1 .. Len(variables) :
               variables[j].name # v.name => \E i \in 1 .. Len(variables') : variables'[i] = variables[j]
    <2> DEFINE new == Updated(variables, v.name, p)
    <2>1. /\ Once(new)
          /\ \A i \in 1 .. Len(new) :
                 \/ new[i] = [name |-> v.name, value |-> p]
                 \/ \E j \in 1 .. Len(variables) : new[i] = variables[j] /\ variables[j].name # v.name
          /\ \E i \in 1 .. Len(new) : new[i] = [name |-> v.name, value |-> p]
          /\ \A j \in 1 .. Len(variables) :
                 variables[j].name # v.name => \E i \in 1 .. Len(new) : new[i] = variables[j]
      <3> HIDE DEF p
      <3>1. variables \in Seq(Variable) /\ Once(variables)
        BY <1>3
      <3>2. v.name \in Names /\ p \in Pointer \cup {Null}
        BY <1>8
      <3>3. \A m \in Names, q \in Pointer \cup {Null} :
               LET upd == Updated(variables, m, q)
               IN /\ Once(upd)
                  /\ \A i \in 1 .. Len(upd) :
                         \/ upd[i] = [name |-> m, value |-> q]
                         \/ \E j \in 1 .. Len(variables) : upd[i] = variables[j] /\ variables[j].name # m
                  /\ \E i \in 1 .. Len(upd) : upd[i] = [name |-> m, value |-> q]
                  /\ \A j \in 1 .. Len(variables) :
                         variables[j].name # m => \E i \in 1 .. Len(upd) : upd[i] = variables[j]
        BY <3>1, UpdatedProperties
      <3> HIDE DEF p, v
      <3> QED BY <3>2, <3>3
    <2>2. variables' = new
      BY <1>1
    <2> HIDE DEF new
    <2> QED BY <2>1, <2>2
  <1> HIDE DEF p
  <1>10. \A i \in 1 .. Len(oldVariables') :
            i + 1 \in 1 .. Len(oldVariables) /\ oldVariables'[i] = oldVariables[i + 1]
    BY <1>1, <1>2, <1>3
  <1>11. CASE Found(variables, n)
    <2>1. PICK j \in 1 .. Len(variables) : variables[j].name = n
      BY <1>11 DEF Found
    <2>2. n # v.name
      BY <1>2, <1>11
    <2>3. PICK i \in 1 .. Len(variables') : variables'[i] = variables[j]
      BY <1>9, <2>1, <2>2
    <2>4. Find(variables, n) = j
      BY <1>3, <2>1, FindIs
    <2>5. Found(variables', n) /\ Find(variables', n) = i
      BY <1>9, <2>1, <2>3, FindIs
    <2>6. \A r : r = variables[j].value => Meaning(n) = Held(r) /\ Meaning(n)' = Held(r)'
      BY <1>11, <2>3, <2>4, <2>5 DEF Meaning
    <2>7. variables[j].value = Null \/ Live(variables[j].value)
      BY DEF NoDangling
    <2> QED BY <1>6, <2>6, <2>7
  <1>12. CASE n = v.name
    <2>1. PICK i \in 1 .. Len(variables') : variables'[i] = [name |-> v.name, value |-> p]
      BY <1>9
    <2>2. Found(variables', n) /\ Find(variables', n) = i
      <3>1. variables'[i].name = n
        BY <1>12, <2>1
      <3> QED BY <1>9, <3>1, FindIs
    <2>3. \A r : r = p => Meaning(n)' = Held(r)'
      BY <2>1, <2>2 DEF Meaning
    <2>4. 1 \in 1 .. Len(oldVariables)
      BY <1>1, <1>3
    <2>5. Found(oldVariables, n) /\ Find(oldVariables, n) = 1
      BY <1>2, <1>3, <1>12, <2>4, FindIs
    <2>6. Meaning(n) = Held(v.value)
      BY <1>2, <1>12, <2>5 DEF Meaning
    <2> QED BY <1>4, <1>5, <2>3, <2>6
  <1>13. CASE ~Found(variables, n) /\ n # v.name
    <2>1. ~Found(variables', n)
      <3> SUFFICES ASSUME NEW i \in 1 .. Len(variables'), variables'[i].name = n PROVE FALSE
        BY DEF Found
      <3>1. CASE variables'[i] = [name |-> v.name, value |-> p]
        BY <1>13, <3>1
      <3>2. ASSUME NEW j \in 1 .. Len(variables), variables'[i] = variables[j] PROVE FALSE
        BY <1>13, <3>2 DEF Found
      <3> QED BY <1>9, <3>1, <3>2
    <2>2. CASE Found(oldVariables, n)
      <3>1. PICK j \in 1 .. Len(oldVariables) : oldVariables[j].name = n
        BY <2>2 DEF Found
      <3>2. j # 1
        BY <1>2, <1>13, <3>1
      <3>3. j - 1 \in 1 .. Len(oldVariables') /\ oldVariables'[j - 1] = oldVariables[j]
        <4>1. j - 1 \in 1 .. Len(oldVariables')
          BY <1>1, <1>2, <1>3, <3>2
        <4>2. oldVariables'[j - 1] = oldVariables[(j - 1) + 1]
          BY <1>10, <4>1
        <4> QED BY <4>1, <4>2
      <3>4. Once(oldVariables')
        <4>1. \A i, k \in 1 .. Len(oldVariables') :
                 oldVariables'[i].name = oldVariables'[k].name => i + 1 = k + 1
          BY <1>3, <1>10 DEF Once
        <4> QED BY <4>1, <1>1, <1>2, <1>3 DEF Once
      <3>5. Find(oldVariables, n) = j
        BY <1>3, <3>1, FindIs
      <3>6. Found(oldVariables', n) /\ Find(oldVariables', n) = j - 1
        <4>1. oldVariables'[j - 1].name = n
          BY <3>1, <3>3
        <4> QED BY <3>3, <3>4, <4>1, FindIs
      <3>7. \A r : r = oldVariables[j].value => Meaning(n) = Held(r) /\ Meaning(n)' = Held(r)'
        BY <1>13, <2>1, <2>2, <3>3, <3>5, <3>6 DEF Meaning
      <3>8. \/ oldVariables[j].value = Null
            \/ oldVariables[j].value \in Pointer /\ oldVariables[j].value.gen = gen - 1
        BY DEF NoDangling
      <3> QED BY <1>7, <3>7, <3>8
    <2>3. CASE ~Found(oldVariables, n)
      <3>1. ~Found(oldVariables', n)
        BY <1>10, <2>3 DEF Found
      <3> QED BY <1>13, <2>1, <2>3, <3>1 DEF Meaning
    <2> QED BY <2>2, <2>3
  <1> QED BY <1>11, <1>12, <1>13

LEMMA SameHeapKeeps ==
    ASSUME UNCHANGED <<gen, heap, variables, oldHeap, oldVariables>>
    PROVE  Kept
  BY DEF Kept, Meaning, Held, Deref

\* Terms are added behind those that are there.
LEMMA NewTermKeepsValues ==
    ASSUME HeapInv, NEW t, WellFormed(t), NewTerm(t)
    PROVE  Kept
  <1> USE DEF HeapInv
  <1> SUFFICES ASSUME NEW n \in Names PROVE Meaning(n)' = Meaning(n)
    BY DEF Kept
  <1>1. /\ oldVariables = <<>> /\ oldVariables' = oldVariables /\ variables' = variables
        /\ gen' = gen /\ heap' = Append(heap, t)
    BY DEF NewTerm, HeapTypeOK
  <1>2. ~Found(oldVariables, n) /\ t \in Term /\ heap \in Seq(Term)
    BY <1>1 DEF Found, WellFormed, HeapTypeOK
  <1>3. CASE Found(variables, n)
    <2> DEFINE q == variables[Find(variables, n)].value
    <2>1. q = Null \/ Live(q)
      BY <1>3, FindProperties DEF NoDangling, NamedOnce, Once
    <2>2. \A r : r = Null \/ Live(r) => Held(r)' = Held(r)
      BY <1>1, <1>2 DEF Live, Held, Deref, Pointer
    <2>3. Meaning(n) = Held(q)
      BY <1>3 DEF Meaning
    <2>4. \A r : r = q => Meaning(n)' = Held(r)'
      BY <1>1, <1>3 DEF Meaning
    <2> QED BY <2>1, <2>2, <2>3, <2>4
  <1>4. CASE ~Found(variables, n)
    BY <1>1, <1>2, <1>4 DEF Meaning
  <1> QED BY <1>3, <1>4

\* The name assigned to holds a value or nothing, the others what they held, also those
\* whose entry led to the term of the old value.
LEMMA SetVariableKeepsOthers ==
    ASSUME HeapInv, NEW n \in Names, NEW p \in LivePointers \cup {Null}, SetVariable(n, p)
    PROVE  /\ Meaning(n)' \in {t \in Term : Duped(t)} \cup {Null}
           /\ \A m \in Names \ {n} : Meaning(m)' = Meaning(m)
  <1> USE DEF HeapInv
  <1>1. /\ gen' = gen /\ heap' = heap /\ oldHeap' = oldHeap
        /\ oldVariables = <<>> /\ oldVariables' = <<>>
        /\ variables' = Updated(variables, n, p)
    BY DEF SetVariable, HeapTypeOK
  <1>2. variables \in Seq(Variable) /\ Once(variables) /\ heap \in Seq(Term) /\ gen \in Nat
    BY DEF HeapTypeOK, NamedOnce, Once
  <1>3. p = Null \/ Live(p)
    BY <1>2 DEF LivePointers, Live, Pointer
  <1>4. \A r : Held(r)' = Held(r)
    BY <1>1 DEF Held, Deref
  <1>5. /\ Once(variables')
        /\ \A i \in 1 .. Len(variables') :
               \/ variables'[i] = [name |-> n, value |-> p]
               \/ \E j \in 1 .. Len(variables) :
                      variables'[i] = variables[j] /\ variables[j].name # n
        /\ \E i \in 1 .. Len(variables') : variables'[i] = [name |-> n, value |-> p]
        /\ \A j \in 1 .. Len(variables) :
               variables[j].name # n => \E i \in 1 .. Len(variables') : variables'[i] = variables[j]
    BY <1>1, <1>2, <1>3, UpdatedProperties DEF Live
  <1>6. Meaning(n)' \in {t \in Term : Duped(t)} \cup {Null}
    <2>1. PICK i \in 1 .. Len(variables') : variables'[i] = [name |-> n, value |-> p]
      BY <1>5
    <2>2. variables'[i].name = n /\ variables'[i].value = p
      BY <2>1
    <2>3. Found(variables', n) /\ Find(variables', n) = i
      BY <1>5, <2>2, FindIs
    <2>4. \A r : r = p => Meaning(n)' = Held(r)'
      BY <2>2, <2>3 DEF Meaning
    <2>5. Held(p) \in {t \in Term : Duped(t)} \cup {Null}
      BY <1>2, <1>3 DEF Held, Deref, Live, Pointer, Duped
    <2> QED BY <1>4, <2>4, <2>5
  <1>7. ASSUME NEW m \in Names \ {n} PROVE Meaning(m)' = Meaning(m)
    <2>1. ~Found(oldVariables, m)
      BY <1>1 DEF Found
    <2>2. CASE Found(variables, m)
      <3>1. PICK j \in 1 .. Len(variables) : variables[j].name = m
        BY <2>2 DEF Found
      <3>2. PICK i \in 1 .. Len(variables') : variables'[i] = variables[j]
        BY <1>5, <3>1
      <3>3. Find(variables, m) = j
        BY <1>2, <3>1, FindIs
      <3>4. Found(variables', m) /\ Find(variables', m) = i
        BY <1>5, <3>1, <3>2, FindIs
      <3>5. \A r : r = variables[j].value => Meaning(m) = Held(r) /\ Meaning(m)' = Held(r)'
        BY <2>2, <3>2, <3>3, <3>4 DEF Meaning
      <3> QED BY <1>4, <3>5
    <2>3. CASE ~Found(variables, m)
      <3>1. ~Found(variables', m)
        BY <1>5, <2>3 DEF Found
      <3> QED BY <1>1, <2>1, <2>3, <3>1 DEF Meaning
    <2> QED BY <2>2, <2>3
  <1> QED BY <1>6, <1>7

LEMMA StoreStep ==
    ASSUME HeapInv, HeapNext
    PROVE  Store!Next \/ UNCHANGED <<[n \in Names |-> Meaning(n)],
               IF halted # "no" THEN "ended" ELSE IF collecting THEN "collecting" ELSE "running">>
  <1> DEFINE store  == [n \in Names |-> Meaning(n)]
             status == IF halted # "no" THEN "ended"
                       ELSE IF collecting THEN "collecting" ELSE "running"
  <1> USE DEF Store!Next, Store!End
  <1>1. Kept => store' = store
    BY DEF Kept
  <1>2. halted = "no" /\ collecting \in BOOLEAN
    BY DEF HeapNext, NewTerm, SetVariable, Gc, StartGc, CopyVariable, FreeOldHeap, HeapInv, HeapTypeOK
  <1>3. ASSUME NEW t, WellFormed(t), NewTerm(t) PROVE Store!End \/ UNCHANGED <<store, status>>
    <2>1. collecting' = collecting
      BY <1>3 DEF NewTerm
    <2> QED BY <1>1, <1>2, <1>3, <2>1, NewTermKeepsValues
  <1>4. ASSUME NEW n \in Names, NEW p \in LivePointers \cup {Null}, SetVariable(n, p)
        PROVE  Store!Assign(n)
    <2>1. status = "running" /\ status' \in {"running", "ended"}
      BY <1>4 DEF SetVariable
    <2>2. store'[n] \in {t \in Term : Duped(t)} \cup {Null}
      BY <1>4, SetVariableKeepsOthers
    <2>3. store' = [store EXCEPT ![n] = store'[n]]
      BY <1>4, SetVariableKeepsOthers
    <2> QED BY <2>1, <2>2, <2>3 DEF Store!Assign
  <1>5. CASE StartGc
    BY <1>1, <1>5, StartGcKeeps DEF StartGc, Store!CollectionBegins
  <1>6. CASE FreeOldHeap
    BY <1>1, <1>6, FreeOldHeapKeeps DEF FreeOldHeap, Store!CollectionEnds
  <1>7. CASE CopyVariable
    <2>1. Kept
      <3>1. CASE Head(oldVariables).value = Null
        BY <1>7, <3>1, SameHeapKeeps DEF CopyVariable, NullDeref
      <3> QED BY <1>7, <3>1, CopyVariableKeeps
    <2>2. collecting' = collecting
      BY <1>7 DEF CopyVariable, NullDeref
    <2> QED BY <1>1, <1>2, <2>1, <2>2
  <1>8. CASE /\ halted' \in {"null", "stack", "off"}
             /\ UNCHANGED <<gen, heap, used, variables, collecting, oldHeap, oldVariables>>
    BY <1>1, <1>2, <1>8, SameHeapKeeps
  <1> HIDE DEF store, status
  <1> QED BY <1>3, <1>4, <1>5, <1>6, <1>7, <1>8 DEF HeapNext, Gc, store, status

\* For any sizes, any scripts and any number of collections: the list of variables, the heap and the
\* collector are a map from names to values.
THEOREM KeepsVariablesAlways == HeapSpec => KeepsVariables
  <1> DEFINE store  == [n \in Names |-> Meaning(n)]
             status == IF halted # "no" THEN "ended"
                       ELSE IF collecting THEN "collecting" ELSE "running"
  <1>1. HeapInit => Store!Init
    BY DEF HeapInit, Store!Init, Meaning, Found
  <1>2. HeapInv /\ [HeapNext]_heapVars => [Store!Next]_<<store, status>>
    <2> SUFFICES ASSUME HeapInv, [HeapNext]_heapVars PROVE [Store!Next]_<<store, status>>
      OBVIOUS
    <2>1. CASE HeapNext
      BY <2>1, StoreStep
    <2>2. CASE UNCHANGED heapVars
      BY <2>2, SameHeapKeeps DEF heapVars, Kept
    <2> QED BY <2>1, <2>2
  <1> QED BY <1>1, <1>2, HeapInvAlways, PTL DEF HeapSpec, KeepsVariables, Store!Spec

\* For any scripts: alloc_heap() never hands out more than the heap has.
THEOREM HeapTypeAlways == HeapSpec => []HeapTypeOK
  <1>1. HeapInv => HeapTypeOK
    BY DEF HeapInv
  <1> QED BY <1>1, HeapInvAlways, PTL

\* For any scripts: no variable and no term leads into a heap that has been freed.
THEOREM NoDanglingAlways == HeapSpec => []NoDangling
  <1>1. HeapInv => NoDangling
    BY DEF HeapInv
  <1> QED BY <1>1, HeapInvAlways, PTL

\* For any scripts: a name is in the list of variables once, also during a collection.
THEOREM NamedOnceAlways == HeapSpec => []NamedOnce
  <1>1. HeapInv => NamedOnce
    BY DEF HeapInv
  <1> QED BY <1>1, HeapInvAlways, PTL
=============================================================================
