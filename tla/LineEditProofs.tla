--------------------------- MODULE LineEditProofs ---------------------------
(***************************************************************************)
(* What LineEdit guarantees for any characters, any length of the buffer,  *)
(* of the history and of the prompt, and terminals of any width.           *)
(*                                                                         *)
(* LineInv is inductive.  Beside the type it says when the terminal is raw *)
(* and that every line of the history could have been entered; the slot of *)
(* the edited line is always the last entry, which is what makes the       *)
(* history a list of lines once it is left out.                            *)
(***************************************************************************)
EXTENDS LineEdit, SequenceTheorems, TLAPS

\* Nothing but an edited line, or a terminal that is gone, leaves the terminal raw.
RawWhileEdited == raw /\ ~hungup => pc \in {"edit", "crashed"}

\* The lines are such that could have been entered.
AllEntered == line \in Entered /\ \A i \in 1 .. Len(history) : history[i] \in Entered

LineInv == TypeOK /\ OnlyNarrowCrashes /\ RawWhileEdited /\ AllEntered

-----------------------------------------------------------------------------
(* Parts of a line.                                                        *)

LEMMA UntilProperties ==
    ASSUME NEW S, NEW b \in Seq(S), NEW n \in 0 .. Len(b)
    PROVE  /\ Until(b, n) \in Seq(S)
           /\ Len(Until(b, n)) = n
           /\ \A i \in 1 .. n : Until(b, n)[i] = b[i]
  <1>1. n \in Int /\ 1 \in Int /\ \A i \in 1 .. n : b[i] \in S
    OBVIOUS
  <1> QED BY <1>1, SubSeqProperties DEF Until

LEMMA AfterProperties ==
    ASSUME NEW S, NEW b \in Seq(S), NEW n \in 0 .. Len(b)
    PROVE  After(b, n) \in Seq(S) /\ Len(After(b, n)) = Len(b) - n
  <1>1. n + 1 \in Int /\ Len(b) \in Int /\ \A i \in n + 1 .. Len(b) : b[i] \in S
    OBVIOUS
  <1> QED BY <1>1, SubSeqProperties DEF After

\* What is left of a line of which a stretch is cut out.
LEMMA CutProperties ==
    ASSUME NEW S, NEW b \in Seq(S), NEW n \in 0 .. Len(b), NEW m \in 0 .. Len(b)
    PROVE  /\ Until(b, n) \o After(b, m) \in Seq(S)
           /\ Len(Until(b, n) \o After(b, m)) = n + Len(b) - m
  <1>1. Len(b) \in Nat
    OBVIOUS
  <1> QED BY <1>1, UntilProperties, AfterProperties, ConcatProperties

LEMMA InsertProperties ==
    ASSUME NEW S, NEW b \in Seq(S), NEW n \in 0 .. Len(b), NEW c \in S
    PROVE  /\ Until(b, n) \o <<c>> \o After(b, n) \in Seq(S)
           /\ Len(Until(b, n) \o <<c>> \o After(b, n)) = Len(b) + 1
  <1>1. Len(b) \in Nat /\ <<c>> \in Seq(S) /\ Len(<<c>>) = 1
    OBVIOUS
  <1>2. Until(b, n) \o <<c>> \in Seq(S) /\ Len(Until(b, n) \o <<c>>) = n + 1
    BY <1>1, UntilProperties, ConcatProperties
  <1> QED BY <1>1, <1>2, AfterProperties, ConcatProperties

\* A whole line.
LEMMA UntilAll ==
    ASSUME NEW S, NEW b \in Seq(S)
    PROVE  Until(b, Len(b)) = b
  <1>1. Len(b) \in 0 .. Len(b)
    OBVIOUS
  <1> QED BY <1>1, UntilProperties, SeqEqual

\* The buffer as a C string has no NUL in it.
LEMMA StringProperties ==
    ASSUME NEW b \in Seq(Chars), NEW n \in 0 .. Len(b), IsStrlen(n, b)
    PROVE  Until(b, n) \in Seq(Letters) /\ Len(Until(b, n)) = n
  <1>1. n \in Int /\ 1 \in Int /\ \A i \in 1 .. n : b[i] \in Letters
    BY DEF IsStrlen, Letters
  <1>2. SubSeq(b, 1, n) \in Seq(Letters)
    BY ONLY <1>1, SubSeqProperties
  <1> QED BY <1>2, UntilProperties DEF Until

LEMMA EnteredIs ==
    ASSUME NEW b \in Seq(Letters), Len(b) <= BufLen
    PROVE  b \in Entered
  <1>1. Len(b) \in 0 .. BufLen /\ b \in [1 .. Len(b) -> Letters]
    BY LineAssumption
  <1> QED BY <1>1 DEF Entered

LEMMA EnteredAreLines ==
    ASSUME NEW b \in Entered
    PROVE  b \in Seq(Letters)
  <1>1. CASE b \in PlainLines
    <2>1. PlainLines \subseteq Seq(Chars \ {Nul})
      BY LineAssumption
    <2> QED BY ONLY <1>1, <2>1 DEF Letters
  <1>2. CASE b \in UNION {[1 .. n -> Letters] : n \in 0 .. BufLen}
    <2>1. PICK n \in 0 .. BufLen : b \in [1 .. n -> Letters]
      BY <1>2
    <2>2. n \in Nat
      BY LineAssumption
    <2>3. b \in UNION {[1 .. k -> Letters] : k \in Nat}
      BY ONLY <2>1, <2>2
    <2> QED BY ONLY <2>3, SeqDef, Zenon
  <1> QED BY <1>1, <1>2 DEF Entered

LEMMA EmptyEntered == Empty \in Entered /\ Empty \in Seq(Letters) /\ Empty \in Seq(Chars) /\ Len(Empty) = 0
  <1>1. Empty \in Seq(Letters) /\ Empty \in Seq(Chars) /\ Len(Empty) = 0
    BY DEF Empty
  <1>2. Len(Empty) <= BufLen
    BY <1>1, LineAssumption
  <1> QED BY <1>1, <1>2, EnteredIs

-----------------------------------------------------------------------------
(* The row: only a terminal that is no wider than the prompt breaks it.    *)

LEMMA RefreshProperties ==
    ASSUME cols \in Nat \ {0}, NEW b \in Seq(Chars), NEW p \in 0 .. Len(b), Refresh(b, p)
    PROVE  /\ buf' = b /\ pos' = p
           /\ pc' = pc \/ (pc' = "crashed" /\ cols <= Plen)
  <1>1. Plen \in Nat /\ Len(b) \in Nat
    BY LineAssumption
  <1>2. cols > Plen => Shown(b, p) >= 0
    BY <1>1 DEF Shown, Scrolled, Smaller
  <1>3. cols <= Plen \/ cols > Plen
    BY <1>1
  <1> QED BY <1>2, <1>3 DEF Refresh

-----------------------------------------------------------------------------
(* Every step keeps the invariant.                                         *)

\* A key that writes the row again.
LEMMA KeyStep ==
    ASSUME LineInv, Key, UNCHANGED edited,
           NEW b \in Seq(Chars), Len(b) <= BufLen, NEW p \in 0 .. Len(b), Refresh(b, p)
    PROVE  LineInv'
  <1>1. cols \in Nat \ {0}
    BY LineAssumption DEF LineInv, TypeOK
  <1>2. buf' = b /\ pos' = p /\ (pc' = "edit" \/ (pc' = "crashed" /\ cols <= Plen))
    BY <1>1, RefreshProperties DEF Key
  <1>3. /\ term' = term /\ hungup' = hungup /\ raw' = raw /\ line' = line
        /\ history' = history /\ index' = index /\ cols' = cols
    BY DEF edited
  <1>4. TypeOK'
    BY <1>2, <1>3 DEF LineInv, TypeOK, Key
  <1>5. OnlyNarrowCrashes' /\ RawWhileEdited' /\ AllEntered'
    BY <1>2, <1>3 DEF LineInv, OnlyNarrowCrashes, RawWhileEdited, AllEntered
  <1> QED BY <1>4, <1>5 DEF LineInv

LEMMA InsertStep ==
    ASSUME LineInv, NEW c \in Chars, linenoiseEditInsert(c)
    PROVE  LineInv'
  <1> DEFINE b == Until(buf, pos) \o <<c>> \o After(buf, pos)
  <1>1. /\ Key /\ UNCHANGED edited /\ Len(buf) < BufLen
        /\ buf \in Seq(Chars) /\ Len(buf) \in Nat /\ pos \in 0 .. Len(buf) /\ BufLen \in Nat
    BY LineAssumption DEF linenoiseEditInsert, LineInv, TypeOK
  <1>2. CASE Refresh(b, pos + 1)
    <2>1. b \in Seq(Chars) /\ Len(b) = Len(buf) + 1
      BY <1>1, InsertProperties
    <2> HIDE DEF b
    <2>2. Len(b) <= BufLen /\ pos + 1 \in 0 .. Len(b)
      BY <1>1, <2>1
    <2> QED BY <1>1, <1>2, <2>1, <2>2, KeyStep
  <1>3. CASE pos = Len(buf) /\ buf' = Append(buf, c) /\ pos' = pos + 1 /\ pc' = pc
    <2>1. buf' \in Seq(Chars) /\ Len(buf') = Len(buf) + 1
      BY <1>1, <1>3, AppendProperties
    <2>2. /\ term' = term /\ hungup' = hungup /\ raw' = raw /\ line' = line
          /\ history' = history /\ index' = index /\ cols' = cols
      BY <1>1 DEF edited
    <2>3. Len(buf') <= BufLen /\ pos' \in 0 .. Len(buf')
      BY <1>1, <1>3, <2>1
    <2>4. TypeOK'
      BY <1>3, <2>1, <2>2, <2>3 DEF LineInv, TypeOK
    <2>5. OnlyNarrowCrashes' /\ RawWhileEdited' /\ AllEntered'
      BY <1>3, <2>2 DEF LineInv, OnlyNarrowCrashes, RawWhileEdited, AllEntered
    <2> QED BY <2>4, <2>5 DEF LineInv
  <1> QED BY <1>2, <1>3 DEF linenoiseEditInsert

\* The keys that delete and move.
LEMMA DeleteStep ==
    ASSUME LineInv,
           \/ linenoiseEditBackspace \/ linenoiseEditDelete \/ linenoiseEditDeletePrevWord
           \/ Transpose \/ KillLine \/ KillToEnd \/ Move
    PROVE  LineInv'
  <1>1. /\ buf \in Seq(Chars) /\ Len(buf) \in Nat /\ pos \in 0 .. Len(buf)
        /\ Len(buf) <= BufLen /\ BufLen \in Nat
    BY LineAssumption DEF LineInv, TypeOK
  <1>2. ASSUME Key, UNCHANGED edited, NEW n \in 0 .. Len(buf), NEW m \in n .. Len(buf),
               Refresh(Until(buf, n) \o After(buf, m), n)
        PROVE  LineInv'
    <2> DEFINE b == Until(buf, n) \o After(buf, m)
    <2>1. m \in 0 .. Len(buf)
      OBVIOUS
    <2>2. b \in Seq(Chars) /\ Len(b) = n + Len(buf) - m
      BY <1>1, <2>1, CutProperties
    <2>3. Refresh(b, n)
      BY <1>2
    <2> HIDE DEF b
    <2>4. Len(b) <= BufLen /\ n \in 0 .. Len(b)
      BY <1>1, <2>2
    <2> QED BY <1>2, <2>2, <2>3, <2>4, KeyStep
  <1>3. CASE linenoiseEditBackspace
    <2>1. pos - 1 \in 0 .. Len(buf) /\ pos \in pos - 1 .. Len(buf)
      BY <1>1, <1>3 DEF linenoiseEditBackspace
    <2> QED BY <1>2, <1>3, <2>1 DEF linenoiseEditBackspace
  <1>4. CASE linenoiseEditDelete
    <2>1. pos \in 0 .. Len(buf) /\ pos + 1 \in pos .. Len(buf)
      BY <1>1, <1>4 DEF linenoiseEditDelete
    <2> QED BY <1>2, <1>4, <2>1 DEF linenoiseEditDelete
  <1>5. CASE linenoiseEditDeletePrevWord
    <2>1. PICK end \in 0 .. pos : \E start \in 0 .. end :
              Refresh(Until(buf, start) \o After(buf, pos), start)
      BY <1>5 DEF linenoiseEditDeletePrevWord
    <2>2. PICK start \in 0 .. end : Refresh(Until(buf, start) \o After(buf, pos), start)
      BY <2>1
    <2>3. start \in 0 .. Len(buf) /\ pos \in start .. Len(buf)
      BY <1>1
    <2> QED BY <1>2, <1>5, <2>2, <2>3 DEF linenoiseEditDeletePrevWord
  <1>6. CASE Transpose
    <2> DEFINE b == [buf EXCEPT ![pos] = buf[pos + 1], ![pos + 1] = buf[pos]]
               p == IF pos = Len(buf) - 1 THEN pos ELSE pos + 1
    <2>1. /\ Key /\ UNCHANGED edited /\ pos > 0 /\ pos < Len(buf) /\ Refresh(b, p)
      BY <1>6 DEF Transpose
    <2>2. pos \in 1 .. Len(buf) /\ pos + 1 \in 1 .. Len(buf)
      BY <1>1, <2>1
    <2>3. b \in Seq(Chars) /\ Len(b) = Len(buf)
      <3>1. buf[pos] \in Chars /\ buf[pos + 1] \in Chars
        BY <1>1, <2>2, ElementOfSeq
      <3>2. /\ [buf EXCEPT ![pos] = buf[pos + 1]] \in Seq(Chars)
            /\ Len([buf EXCEPT ![pos] = buf[pos + 1]]) = Len(buf)
        BY <1>1, <2>2, <3>1, ExceptSeq
      <3> QED BY <1>1, <2>2, <3>1, <3>2, ExceptSeq
    <2>4. p \in 0 .. Len(b)
      BY <1>1, <2>2, <2>3
    <2> HIDE DEF b, p
    <2> QED BY <1>1, <2>1, <2>3, <2>4, KeyStep
  <1>7. CASE KillLine
    <2>1. Len(Empty) <= BufLen /\ 0 \in 0 .. Len(Empty)
      BY <1>1, EmptyEntered
    <2> QED BY <1>7, <2>1, EmptyEntered, KeyStep DEF KillLine
  <1>8. CASE KillToEnd
    <2>1. Until(buf, pos) \in Seq(Chars) /\ Len(Until(buf, pos)) = pos
      BY <1>1, UntilProperties
    <2>2. Len(Until(buf, pos)) <= BufLen /\ pos \in 0 .. Len(Until(buf, pos))
      BY <1>1, <2>1
    <2> QED BY <1>8, <2>1, <2>2, KeyStep DEF KillToEnd
  <1>9. CASE Move
    <2>1. PICK p \in 0 .. Len(buf) : Refresh(buf, p)
      BY <1>9 DEF Move
    <2> QED BY <1>1, <1>9, <2>1, KeyStep DEF Move
  <1> QED BY <1>3, <1>4, <1>5, <1>6, <1>7, <1>8, <1>9

\* The slot is an entry, and the edited line goes there as a string.
LEMMA SlotProperties ==
    ASSUME LineInv, NEW step \in {-1, 1}, linenoiseEditHistoryNext(step)
    PROVE  /\ Key /\ Slot \in 1 .. Len(history)
           /\ \E n \in 0 .. Len(buf) :
                  /\ IsStrlen(n, buf)
                  /\ Until(buf, n) \in Entered /\ Until(buf, n) \in Seq(Letters)
                  /\ history' = [history EXCEPT ![Slot] = Until(buf, n)]
  <1>1. PICK n \in 0 .. Len(buf) :
            /\ Key /\ IsStrlen(n, buf)
            /\ history' = [history EXCEPT ![Slot] = Until(buf, n)]
    BY DEF linenoiseEditHistoryNext
  <1>2. /\ buf \in Seq(Chars) /\ Len(buf) \in Nat /\ Len(buf) <= BufLen /\ BufLen \in Nat
        /\ history \in Seq(Seq(Letters)) /\ Len(history) \in Nat
        /\ index \in Nat /\ index < Len(history)
    BY <1>1, LineAssumption DEF LineInv, TypeOK, Key
  <1>3. Slot \in 1 .. Len(history)
    BY <1>2 DEF Slot
  <1>4. Until(buf, n) \in Seq(Letters) /\ Len(Until(buf, n)) <= BufLen
    BY <1>1, <1>2, StringProperties
  <1> QED BY <1>1, <1>3, <1>4, EnteredIs

\* Where the moving in the history ends up.
LEMMA HistoryKept ==
    ASSUME LineInv, NEW step \in {-1, 1}, linenoiseEditHistoryNext(step)
    PROVE  /\ history' \in Seq(Seq(Letters)) /\ Len(history') = Len(history)
           /\ \A i \in 1 .. Len(history) : history'[i] \in Entered
           /\ \A i \in 1 .. Len(history) : i # Slot => history'[i] = history[i]
           /\ UNCHANGED <<term, hungup, raw, line, cols>>
  <1>1. PICK n \in 0 .. Len(buf) :
            /\ Until(buf, n) \in Entered /\ Until(buf, n) \in Seq(Letters)
            /\ history' = [history EXCEPT ![Slot] = Until(buf, n)]
    BY SlotProperties
  <1>2. /\ Slot \in 1 .. Len(history) /\ history \in Seq(Seq(Letters))
        /\ \A i \in 1 .. Len(history) : history[i] \in Entered
    BY SlotProperties DEF LineInv, TypeOK, AllEntered
  <1>3. /\ history' \in Seq(Seq(Letters)) /\ Len(history') = Len(history)
        /\ \A j \in 1 .. Len(history) :
               history'[j] = IF j = Slot THEN Until(buf, n) ELSE history[j]
    BY <1>1, <1>2, ExceptSeq
  <1>4. UNCHANGED <<term, hungup, raw, line, cols>>
    BY DEF linenoiseEditHistoryNext
  <1> QED BY <1>1, <1>2, <1>3, <1>4

LEMMA HistoryNextStep ==
    ASSUME LineInv, NEW step \in {-1, 1}, linenoiseEditHistoryNext(step)
    PROVE  LineInv'
  <1>1. /\ Key /\ index \in Nat /\ Len(history) \in Nat /\ cols \in Nat \ {0}
        /\ buf \in Seq(Chars) /\ Len(buf) <= BufLen /\ pos \in 0 .. Len(buf)
        /\ BufLen \in Nat \ {0} /\ history \in Seq(Seq(Letters)) /\ index < Len(history)
    BY LineAssumption DEF LineInv, TypeOK, linenoiseEditHistoryNext, Key
  <1>2. /\ index' \in Nat /\ index' < Len(history)
        /\ buf' \in Seq(Chars) /\ Len(buf') <= BufLen /\ pos' \in 0 .. Len(buf')
        /\ pc' = "edit" \/ (pc' = "crashed" /\ cols <= Plen)
    <2>1. CASE UNCHANGED <<index, buf, pos, screen, pc>>
      BY <1>1, <2>1 DEF Key
    <2>2. CASE index + step \in 0 .. Len(history) - 1
      <3> DEFINE h == history[Slot - step]
                 n == Smaller(Len(h), BufLen - 1)
      <3>1. index' = index + step /\ Refresh(Until(h, n), n)
        BY <2>2 DEF linenoiseEditHistoryNext
      <3>2. Slot - step \in 1 .. Len(history)
        BY <1>1, <2>2 DEF Slot
      <3>3. h \in Seq(Letters)
        BY <1>1, <3>2, ElementOfSeq
      <3>4. h \in Seq(Chars)
        BY <3>3, SeqMonotonic DEF Letters
      <3> HIDE DEF h
      <3>5. n \in 0 .. Len(h) /\ n <= BufLen
        BY <1>1, <3>4 DEF Smaller
      <3> HIDE DEF n
      <3>6. Until(h, n) \in Seq(Chars) /\ Len(Until(h, n)) = n
        BY <3>4, <3>5, UntilProperties
      <3>7. n \in 0 .. Len(Until(h, n))
        BY <3>5, <3>6
      <3>8. /\ buf' = Until(h, n) /\ pos' = n
            /\ pc' = pc \/ (pc' = "crashed" /\ cols <= Plen)
        BY <1>1, <3>1, <3>6, <3>7, RefreshProperties
      <3>9. index' \in Nat /\ index' < Len(history)
        BY <1>1, <2>2, <3>1
      <3> QED BY <1>1, <3>5, <3>6, <3>7, <3>8, <3>9 DEF Key
    <2> QED BY <2>1, <2>2 DEF linenoiseEditHistoryNext
  <1>3. /\ history' \in Seq(Seq(Letters)) /\ Len(history') = Len(history)
        /\ \A i \in 1 .. Len(history) : history'[i] \in Entered
        /\ term' = term /\ hungup' = hungup /\ raw' = raw /\ line' = line /\ cols' = cols
    BY HistoryKept
  <1>4. TypeOK'
    BY <1>2, <1>3 DEF LineInv, TypeOK
  <1>5. OnlyNarrowCrashes' /\ RawWhileEdited' /\ AllEntered'
    BY <1>2, <1>3 DEF LineInv, OnlyNarrowCrashes, RawWhileEdited, AllEntered
  <1> QED BY <1>4, <1>5 DEF LineInv

\* linenoiseHistoryAdd(): a list that is not too long, of the same lines and the new one.
LEMMA AddedProperties ==
    ASSUME LineInv, NEW l \in Entered
    PROVE  /\ Added(l) \in Seq(Seq(Letters))
           /\ Len(Added(l)) \in 1 .. HistoryMax
           /\ \A i \in 1 .. Len(Added(l)) : Added(l)[i] \in Entered
  <1>1. /\ history \in Seq(Seq(Letters)) /\ Len(history) \in Nat /\ Len(history) <= HistoryMax
        /\ HistoryMax \in Nat \ {0, 1} /\ l \in Seq(Letters)
        /\ \A i \in 1 .. Len(history) : history[i] \in Entered
    BY LineAssumption, EnteredAreLines DEF LineInv, TypeOK, AllEntered
  <1>2. CASE Added(l) = history /\ history # <<>>
    BY <1>1, <1>2, EmptySeq
  <1>3. CASE Added(l) = Append(Tail(history), l) /\ Len(history) = HistoryMax
    <2>1. history # <<>>
      BY <1>1, <1>3
    <2>2. /\ Tail(history) \in Seq(Seq(Letters)) /\ Len(Tail(history)) = HistoryMax - 1
          /\ \A i \in 1 .. Len(Tail(history)) : Tail(history)[i] = history[i + 1]
      BY <1>1, <1>3, <2>1, HeadTailProperties
    <2>3. \A i \in 1 .. Len(Tail(history)) : Tail(history)[i] \in Entered
      BY <1>1, <1>3, <2>2
    <2>4. /\ Added(l) \in Seq(Seq(Letters)) /\ Len(Added(l)) = HistoryMax
          /\ \A i \in 1 .. HistoryMax - 1 : Added(l)[i] = Tail(history)[i]
          /\ Added(l)[HistoryMax] = l
      BY <1>1, <1>3, <2>2, AppendProperties
    <2>5. \A i \in 1 .. HistoryMax : i \in 1 .. HistoryMax - 1 \/ i = HistoryMax
      BY <1>1
    <2> QED BY <1>1, <2>2, <2>3, <2>4, <2>5
  <1>4. CASE Added(l) = Append(history, l) /\ Len(history) # HistoryMax
    <2>1. /\ Added(l) \in Seq(Seq(Letters)) /\ Len(Added(l)) = Len(history) + 1
          /\ \A i \in 1 .. Len(history) : Added(l)[i] = history[i]
          /\ Added(l)[Len(history) + 1] = l
      BY <1>1, <1>4, AppendProperties
    <2>2. \A i \in 1 .. Len(history) + 1 : i \in 1 .. Len(history) \/ i = Len(history) + 1
      BY <1>1
    <2> QED BY <1>1, <1>4, <2>1, <2>2
  <1> QED BY <1>2, <1>3, <1>4 DEF Added


LEMMA PoppedProperties ==
    ASSUME LineInv, history # <<>>
    PROVE  /\ Popped \in Seq(Seq(Letters)) /\ Len(Popped) = Len(history) - 1
           /\ \A i \in 1 .. Len(Popped) : Popped[i] = history[i]
  <1>1. history \in Seq(Seq(Letters)) /\ Len(history) \in Nat \ {0}
    BY EmptySeq DEF LineInv, TypeOK
  <1>2. Len(history) - 1 \in 0 .. Len(history)
    BY <1>1
  <1> QED BY <1>1, <1>2, UntilProperties DEF Popped

\* linenoiseEdit() returns; what happens to the slot is the caller's.
LEMMA ReturnStep ==
    ASSUME LineInv, pc = "edit", Return \/ NoLine, history' = Popped \/ UNCHANGED history
    PROVE  LineInv'
  <1>1. /\ history \in Seq(Seq(Letters)) /\ Len(history) \in Nat \ {0}
        /\ Len(history) <= HistoryMax /\ HistoryMax \in Nat
        /\ buf \in Seq(Chars) /\ Len(buf) \in Nat /\ Len(buf) <= BufLen /\ BufLen \in Nat \ {0}
        /\ \A i \in 1 .. Len(history) : history[i] \in Entered
    BY LineAssumption DEF LineInv, TypeOK, AllEntered
  <1>2. /\ history' \in Seq(Seq(Letters)) /\ Len(history') <= HistoryMax
        /\ \A i \in 1 .. Len(history') : history'[i] \in Entered
    <2>1. CASE history' = Popped
      <3>1. history # <<>>
        BY <1>1, EmptySeq
      <3> QED BY <1>1, <2>1, <3>1, PoppedProperties
    <2>2. CASE UNCHANGED history
      BY <1>1, <2>2
    <2> QED BY <2>1, <2>2
  <1>3. line' \in Entered /\ line' \in Seq(Letters) /\ pc' \in {"over", "entered"} /\ raw' = hungup
    <2>1. CASE Return
      <3>1. PICK n \in 0 .. Len(buf) : IsStrlen(n, buf) /\ line' = Until(buf, n)
        BY <2>1 DEF Return
      <3>2. Until(buf, n) \in Seq(Letters) /\ Len(Until(buf, n)) <= BufLen
        BY <1>1, <3>1, StringProperties
      <3> QED BY <2>1, <3>1, <3>2, EnteredIs DEF Return
    <2>2. CASE NoLine
      BY <2>2 DEF NoLine, LineInv, TypeOK, AllEntered
    <2> QED BY <2>1, <2>2
  <1>4. /\ index' = 0 /\ buf' = Empty /\ pos' = 0 /\ term' = term /\ hungup' = hungup /\ cols' = cols
    BY DEF Return, NoLine, Gone
  <1>5. TypeOK'
    <2>1. buf' \in Seq(Chars) /\ Len(buf') = 0 /\ Len(buf') <= BufLen /\ pos' \in 0 .. Len(buf')
      BY <1>1, <1>4, EmptyEntered
    <2>2. raw' \in BOOLEAN /\ term' \in Terminals /\ hungup' \in BOOLEAN /\ cols' \in Cols
      BY <1>3, <1>4 DEF LineInv, TypeOK
    <2> QED BY <1>2, <1>3, <1>4, <2>1, <2>2 DEF TypeOK
  <1>6. OnlyNarrowCrashes' /\ RawWhileEdited' /\ AllEntered'
    BY <1>2, <1>3, <1>4 DEF OnlyNarrowCrashes, RawWhileEdited, AllEntered
  <1> QED BY <1>5, <1>6 DEF LineInv

LEMMA BeginStep ==
    ASSUME LineInv, Begin
    PROVE  LineInv'
  <1>1. /\ Added(Empty) \in Seq(Seq(Letters)) /\ Len(Added(Empty)) \in 1 .. HistoryMax
        /\ \A i \in 1 .. Len(Added(Empty)) : Added(Empty)[i] \in Entered
    BY EmptyEntered, AddedProperties
  <1>2. /\ pc' = "edit" /\ raw' = TRUE /\ history' = Added(Empty) /\ index' = 0
        /\ buf' = Empty /\ pos' = 0 /\ cols' \in Cols
        /\ term' = term /\ hungup' = hungup /\ line' = line
    BY DEF Begin
  <1>3. buf' \in Seq(Chars) /\ Len(buf') = 0 /\ Len(buf') <= BufLen /\ pos' \in 0 .. Len(buf')
    BY <1>2, EmptyEntered, LineAssumption
  <1>4. history' \in Seq(Seq(Letters)) /\ Len(history') <= HistoryMax /\ 0 < Len(history')
    BY <1>1, <1>2, LineAssumption
  <1>5. TypeOK'
    BY <1>2, <1>3, <1>4 DEF LineInv, TypeOK
  <1>6. OnlyNarrowCrashes' /\ RawWhileEdited' /\ AllEntered'
    BY <1>1, <1>2 DEF LineInv, OnlyNarrowCrashes, RawWhileEdited, AllEntered
  <1> QED BY <1>5, <1>6 DEF LineInv

LEMMA KeepStep ==
    ASSUME LineInv, Keep
    PROVE  LineInv'
  <1>1. /\ Added(line) \in Seq(Seq(Letters)) /\ Len(Added(line)) \in 1 .. HistoryMax
        /\ \A i \in 1 .. Len(Added(line)) : Added(line)[i] \in Entered
    BY AddedProperties DEF LineInv, AllEntered
  <1>2. /\ pc = "entered" /\ pc' = "eval" /\ history' = Added(line)
        /\ UNCHANGED <<term, hungup, raw, line, index, buf, pos, cols, screen>>
    BY DEF Keep
  <1>3. history' \in Seq(Seq(Letters)) /\ Len(history') <= HistoryMax
    BY <1>1, <1>2, LineAssumption
  <1>4. TypeOK'
    BY <1>2, <1>3 DEF LineInv, TypeOK
  <1>5. OnlyNarrowCrashes' /\ RawWhileEdited' /\ AllEntered'
    BY <1>1, <1>2 DEF LineInv, OnlyNarrowCrashes, RawWhileEdited, AllEntered
  <1> QED BY <1>4, <1>5 DEF LineInv

\* What leaves the history and the edited line alone.
LEMMA QuietStep ==
    ASSUME LineInv, ReadPlain \/ NoMoreInput \/ Evaluated \/ HangUp
    PROVE  LineInv'
  <1>1. UNCHANGED <<term, raw, history, index, buf, pos, cols>>
    BY DEF ReadPlain, NoMoreInput, Evaluated, HangUp
  <1>2. \/ pc' \in {"prompt", "entered", "over"} /\ hungup' = hungup /\ pc \in {"prompt", "eval"}
        \/ pc' = pc /\ hungup' = TRUE
    <2>1. CASE ReadPlain \/ NoMoreInput
      BY <2>1 DEF ReadPlain, NoMoreInput
    <2>2. CASE Evaluated
      BY <2>2 DEF Evaluated
    <2>3. CASE HangUp
      BY <2>3 DEF HangUp
    <2> QED BY <2>1, <2>2, <2>3
  <1>3. line' \in Entered
    <2>1. CASE line' \in PlainLines
      BY <2>1 DEF Entered
    <2>2. CASE line' = Empty
      BY <2>2, EmptyEntered
    <2>3. CASE line' = line
      BY <2>3 DEF LineInv, AllEntered
    <2> QED BY <2>1, <2>2, <2>3 DEF ReadPlain, NoMoreInput, Evaluated, HangUp
  <1>4. line' \in Seq(Letters)
    BY <1>3, EnteredAreLines
  <1>5. TypeOK'
    BY <1>1, <1>2, <1>4 DEF LineInv, TypeOK
  <1>6. OnlyNarrowCrashes' /\ RawWhileEdited' /\ AllEntered'
    BY <1>1, <1>2, <1>3 DEF LineInv, OnlyNarrowCrashes, RawWhileEdited, AllEntered
  <1> QED BY <1>5, <1>6 DEF LineInv

LEMMA InitLine == Init => LineInv
  <1> SUFFICES ASSUME Init PROVE LineInv
    OBVIOUS
  <1>1. history = <<>> /\ history \in Seq(Seq(Letters)) /\ Len(history) = 0
    BY EmptySeq DEF Init
  <1>2. line = Empty /\ buf = Empty /\ pos = 0 /\ Len(buf) = 0
    BY EmptyEntered DEF Init
  <1>3. TypeOK
    <2>1. /\ line \in Seq(Letters) /\ buf \in Seq(Chars) /\ pos \in 0 .. Len(buf)
          /\ Len(buf) <= BufLen /\ Len(history) <= HistoryMax
      BY <1>1, <1>2, EmptyEntered, LineAssumption
    <2>2. /\ term \in Terminals /\ hungup = FALSE /\ raw = FALSE /\ pc = "prompt"
          /\ index = 0 /\ cols \in Cols
      BY DEF Init
    <2> QED BY <1>1, <2>1, <2>2 DEF TypeOK
  <1>4. OnlyNarrowCrashes /\ RawWhileEdited /\ AllEntered
    BY <1>1, <1>2, EmptyEntered DEF Init, OnlyNarrowCrashes, RawWhileEdited, AllEntered
  <1> QED BY <1>3, <1>4 DEF LineInv

LEMMA NextLine == LineInv /\ [Next]_vars => LineInv'
  <1> SUFFICES ASSUME LineInv, [Next]_vars PROVE LineInv'
    OBVIOUS
  <1>1. CASE Edit
    <2>1. ASSUME NEW c \in Chars, linenoiseEditInsert(c) PROVE LineInv'
      BY <2>1, InsertStep
    <2>2. ASSUME NEW step \in {-1, 1}, linenoiseEditHistoryNext(step) PROVE LineInv'
      BY <2>2, HistoryNextStep
    <2> QED BY <1>1, <2>1, <2>2, DeleteStep DEF Edit
  <1>2. CASE Enter \/ EndOfFile \/ Interrupt \/ ReadFails
    BY <1>2, ReturnStep DEF Enter, EndOfFile, Interrupt, ReadFails, Key
  <1>3. CASE ReadPlain \/ NoMoreInput \/ Evaluated \/ HangUp
    BY <1>3, QuietStep
  <1>4. CASE UNCHANGED vars
    BY <1>4 DEF vars, LineInv, TypeOK, OnlyNarrowCrashes, RawWhileEdited, AllEntered
  <1> QED BY <1>1, <1>2, <1>3, <1>4, BeginStep, KeepStep DEF Next, Program

THEOREM LineInvAlways == Spec => []LineInv
  BY InitLine, NextLine, PTL DEF Spec

\* linenoiseEditInsert(), linenoiseEditHistoryNext() and linenoiseHistoryAdd() stay in
\* their buffers, whatever is typed: the line and its NUL fit, the cursor is in the line,
\* the slot in the history.
THEOREM TypeAlways == Spec => []TypeOK
  <1>1. LineInv => TypeOK
    BY DEF LineInv
  <1> QED BY <1>1, LineInvAlways, PTL

\* refreshSingleLine() computes with a terminal of any width, and only one that is no
\* wider than the prompt makes its lengths wrap around.
THEOREM OnlyNarrowCrashesAlways == Spec => []OnlyNarrowCrashes
  <1>1. LineInv => OnlyNarrowCrashes
    BY DEF LineInv
  <1> QED BY <1>1, LineInvAlways, PTL

\* linenoiseRaw() gives the terminal back before repl() evaluates the line.
THEOREM CookedAlways == Spec => []CookedForCommands
  <1>1. LineInv => CookedForCommands
    BY DEF LineInv, RawWhileEdited, CookedForCommands
  <1> QED BY <1>1, LineInvAlways, PTL

-----------------------------------------------------------------------------
(* Moving in the history.                                                  *)

\* The drafts before and after a move, whatever the step ends at.
LEMMA MoveKeeps ==
    ASSUME LineInv, NEW step \in {-1, 1}, linenoiseEditHistoryNext(step), NoNul(buf),
           \A i \in DOMAIN history : Len(history[i]) < BufLen
    PROVE  Drafts' = Drafts
  <1>1. PICK n \in 0 .. Len(buf) :
            IsStrlen(n, buf) /\ history' = [history EXCEPT ![Slot] = Until(buf, n)]
    BY SlotProperties
  <1>2. /\ buf \in Seq(Chars) /\ Len(buf) \in Nat /\ index \in Nat /\ BufLen \in Nat
        /\ history \in Seq(Seq(Letters)) /\ Len(history) \in Nat
        /\ Slot \in 1 .. Len(history) /\ Key /\ index < Len(history)
    BY SlotProperties, LineAssumption DEF LineInv, TypeOK, Key
  <1>3. history' = [history EXCEPT ![Slot] = buf]
    <2>1. n = Len(buf)
      <3>1. n < Len(buf) => n + 1 \in DOMAIN buf /\ buf[n + 1] = Nul
        BY <1>1, <1>2 DEF IsStrlen
      <3> QED BY <1>2, <3>1 DEF NoNul
    <2> QED BY <1>1, <1>2, <2>1, UntilAll
  <1>4. Len(history') = Len(history) /\ Drafts = history'
    BY <1>3, HistoryKept DEF Drafts
  <1>5. CASE UNCHANGED <<index, buf>>
    <2>1. Slot' = Slot
      BY <1>4, <1>5 DEF Slot
    <2>2. Drafts' = [history' EXCEPT ![Slot] = buf]
      BY <1>5, <2>1 DEF Drafts
    <2> QED BY <1>2, <1>3, <1>4, <2>2
  <1>6. CASE index + step \in 0 .. Len(history) - 1
    <2> DEFINE k == Slot - step
               n2 == Smaller(Len(history[k]), BufLen - 1)
    <2>1. index' = index + step /\ buf' = Until(history[k], n2)
      BY <1>6 DEF linenoiseEditHistoryNext, Refresh
    <2>2. k \in 1 .. Len(history) /\ k # Slot /\ Slot' = k
      <3>1. /\ Len(history) \in Nat /\ index \in Nat /\ step \in Int /\ step # 0
            /\ index + step >= 0 /\ index + step < Len(history)
        BY <1>2, <1>6
      <3>2. Slot = Len(history) - index /\ Slot' = Len(history) - (index + step)
        BY <1>4, <2>1 DEF Slot
      <3>3. k = Len(history) - index - step
        BY <3>2
      <3> HIDE DEF k
      <3> QED BY ONLY <3>1, <3>2, <3>3
    <2>3. history[k] \in Seq(Letters) /\ Len(history[k]) < BufLen
      BY <1>2, <2>2, ElementOfSeq
    <2>4. n2 = Len(history[k])
      BY <1>2, <2>3 DEF Smaller
    <2>5. buf' = history[k]
      BY <2>1, <2>3, <2>4, UntilAll
    <2>6. history'[k] = history[k]
      BY <2>2, HistoryKept
    <2>7. Drafts' = [history' EXCEPT ![k] = history'[k]]
      BY <2>2, <2>5, <2>6 DEF Drafts
    <2>8. history' \in Seq(Seq(Letters))
      BY HistoryKept
    <2> HIDE DEF k
    <2> QED BY <1>4, <2>7, <2>8
  <1> QED BY <1>5, <1>6 DEF linenoiseEditHistoryNext

\* linenoiseEditHistoryNext(), for histories and lines of any length: nothing typed is
\* lost on the way up and down.
THEOREM MovesKeepLinesAlways == Spec => MovesKeepLines
  <1> DEFINE Moves == /\ pc = "edit"
                      /\ pc' \in {"edit", "crashed"}
                      /\ index' # index \/ history' # history
                      /\ NoNul(buf)
                      /\ \A i \in DOMAIN history : Len(history[i]) < BufLen
  <1>1. LineInv /\ [Next]_vars => [Moves => Drafts' = Drafts]_vars
    <2> SUFFICES ASSUME LineInv, Next, Moves PROVE Drafts' = Drafts
      OBVIOUS
    <2>1. ~(Enter \/ EndOfFile \/ Interrupt \/ ReadPlain \/ Program)
      BY DEF Enter, EndOfFile, Interrupt, ReadPlain, Program, Begin, ReadFails, NoMoreInput,
             Keep, Evaluated, Return, NoLine
    <2>2. ~HangUp
      BY DEF HangUp
    <2>3. PICK step \in {-1, 1} : linenoiseEditHistoryNext(step)
      BY <2>1, <2>2 DEF Next, Edit, edited, linenoiseEditInsert, linenoiseEditBackspace,
             linenoiseEditDelete, linenoiseEditDeletePrevWord, Transpose, KillLine, KillToEnd, Move
    <2> QED BY <2>3, MoveKeeps
  <1> QED BY <1>1, LineInvAlways, PTL DEF Spec, MovesKeepLines

-----------------------------------------------------------------------------
(* The history is LineBook's.                                              *)

\* What LineBook sees.
Given == IF pc = "entered" THEN line ELSE Empty
Lost == raw /\ Phase # "open"

LEMMA PhaseIs ==
    /\ pc = "prompt" \/ pc = "eval" => Phase = "idle" /\ Kept = history
    /\ pc = "edit" \/ pc = "crashed" => Phase = "open" /\ Kept = Popped
    /\ pc = "entered" => Phase = "given" /\ Kept = history
    /\ pc = "over" => Phase = "left" /\ Kept = history
  BY DEF Phase, Kept

\* A list without the entry that was put at its end is the list.
LEMMA PopAppend ==
    ASSUME NEW S, NEW s \in Seq(S), NEW x \in S
    PROVE  Until(Append(s, x), Len(Append(s, x)) - 1) = s
  <1> DEFINE t == Append(s, x)
  <1>1. /\ t \in Seq(S) /\ Len(t) = Len(s) + 1 /\ Len(s) \in Nat
        /\ \A i \in 1 .. Len(s) : t[i] = s[i]
    BY AppendProperties
  <1> HIDE DEF t
  <1>2. Len(t) - 1 \in 0 .. Len(t) /\ Len(t) - 1 = Len(s)
    BY <1>1
  <1>3. /\ Until(t, Len(t) - 1) \in Seq(S) /\ Len(Until(t, Len(t) - 1)) = Len(s)
        /\ \A i \in 1 .. Len(s) : Until(t, Len(t) - 1)[i] = s[i]
    BY <1>1, <1>2, UntilProperties
  <1> QED BY <1>1, <1>3, SeqEqual DEF t

\* The slot and what is before it.
LEMMA AppendPopped ==
    ASSUME LineInv, history # <<>>
    PROVE  history = Append(Popped, history[Len(history)]) /\ Len(Popped) < HistoryMax
  <1> DEFINE n == Len(history)
             t == Append(Popped, history[n])
  <1>1. /\ history \in Seq(Seq(Letters)) /\ n \in Nat \ {0} /\ n <= HistoryMax
        /\ HistoryMax \in Nat
    BY EmptySeq, LineAssumption DEF LineInv, TypeOK
  <1>2. history[n] \in Seq(Letters)
    BY <1>1, ElementOfSeq
  <1>3. /\ Popped \in Seq(Seq(Letters)) /\ Len(Popped) = n - 1
        /\ \A i \in 1 .. Len(Popped) : Popped[i] = history[i]
    BY PoppedProperties
  <1>4. /\ t \in Seq(Seq(Letters)) /\ Len(t) = n
        /\ \A i \in 1 .. n - 1 : t[i] = history[i]
        /\ t[n] = history[n]
    BY <1>1, <1>2, <1>3, AppendProperties
  <1> HIDE DEF t
  <1>5. \A i \in 1 .. n : t[i] = history[i]
    BY <1>1, <1>4
  <1>6. t = history
    BY <1>1, <1>4, <1>5, SeqEqual
  <1> QED BY <1>1, <1>3, <1>6 DEF t

LEMMA BookBegin == ASSUME LineInv, Begin PROVE Book!Begin
  <1>1. /\ pc = "prompt" /\ pc' = "edit" /\ ~hungup /\ history' = Added(Empty)
    BY DEF Begin
  <1>2. /\ Phase = "idle" /\ Kept = history /\ Phase' = "open" /\ Kept' = Popped'
    BY <1>1 DEF Phase, Kept
  <1>3. ~raw
    BY <1>1 DEF LineInv, RawWhileEdited
  <1>4. /\ history \in Seq(Seq(Letters)) /\ Len(history) \in Nat /\ Empty \in Seq(Letters)
        /\ HistoryMax \in Nat \ {0, 1}
    BY EmptyEntered, LineAssumption DEF LineInv, TypeOK
  <1>5. Kept' = IF history # <<>> /\ history[Len(history)] = Empty THEN SubSeq(history, 1, Len(history) - 1)
                ELSE IF Len(history) = HistoryMax THEN Tail(history) ELSE history
    <2>1. Kept' = Until(Added(Empty), Len(Added(Empty)) - 1)
      BY <1>1, <1>2 DEF Popped
    <2>2. CASE history # <<>> /\ history[Len(history)] = Empty
      BY <2>1, <2>2 DEF Added, Until
    <2>3. CASE ~(history # <<>> /\ history[Len(history)] = Empty) /\ Len(history) = HistoryMax
      <3>1. Added(Empty) = Append(Tail(history), Empty)
        BY <2>3 DEF Added
      <3>2. history # <<>>
        BY <1>4, <2>3
      <3>3. Tail(history) \in Seq(Seq(Letters))
        BY <1>4, <3>2, HeadTailProperties
      <3>4. Kept' = Tail(history)
        <4>1. Until(Append(Tail(history), Empty), Len(Append(Tail(history), Empty)) - 1)
                  = Tail(history)
          BY <1>4, <3>3, PopAppend
        <4> QED BY <2>1, <3>1, <4>1
      <3> QED BY <2>3, <3>4
    <2>4. CASE ~(history # <<>> /\ history[Len(history)] = Empty) /\ Len(history) # HistoryMax
      <3>1. Added(Empty) = Append(history, Empty)
        BY <2>4 DEF Added
      <3>2. Kept' = history
        BY <1>4, <2>1, <3>1, PopAppend
      <3> QED BY <2>4, <3>2
    <2> QED BY <2>2, <2>3, <2>4
  <1> QED BY <1>1, <1>2, <1>3, <1>5 DEF Book!Begin, Book!LastIs

LEMMA BookKeep == ASSUME LineInv, Keep PROVE Book!Keep
  <1>1. /\ pc = "entered" /\ pc' = "eval" /\ history' = Added(line) /\ raw' = raw
    BY DEF Keep
  <1>2. /\ Phase = "given" /\ Kept = history /\ Phase' = "idle" /\ Kept' = history'
    BY <1>1 DEF Phase, Kept
  <1> QED BY <1>1, <1>2 DEF Book!Keep, Book!LastIs, Added

\* A move is an amendment of an old line, or nothing that LineBook sees.
LEMMA BookMove ==
    ASSUME LineInv, NEW step \in {-1, 1}, linenoiseEditHistoryNext(step)
    PROVE  Book!Amend \/ Kept' = Kept
  <1>1. PICK n \in 0 .. Len(buf) :
            /\ Until(buf, n) \in Entered
            /\ history' = [history EXCEPT ![Slot] = Until(buf, n)]
    BY SlotProperties
  <1>2. /\ pc = "edit" /\ pc' \in {"edit", "crashed"}
        /\ Slot \in 1 .. Len(history) /\ Len(history) \in Nat \ {0}
        /\ history \in Seq(Seq(Letters)) /\ history # <<>>
        /\ history' \in Seq(Seq(Letters)) /\ Len(history') = Len(history)
    <2>1. /\ history \in Seq(Seq(Letters)) /\ Key
          /\ Slot \in 1 .. Len(history)
          /\ history' \in Seq(Seq(Letters)) /\ Len(history') = Len(history)
      BY SlotProperties, HistoryKept DEF LineInv, TypeOK
    <2>2. Len(history) \in Nat \ {0} /\ history # <<>>
      BY <2>1, EmptySeq
    <2>3. pc = "edit" /\ pc' \in {"edit", "crashed"}
      BY <2>1 DEF Key, linenoiseEditHistoryNext, Refresh
    <2> QED BY <2>1, <2>2, <2>3
  <1>3. Phase = "open" /\ Kept = Popped /\ Phase' = "open" /\ Kept' = Popped'
    BY <1>2 DEF Phase, Kept
  <1> DEFINE m == Len(history) - 1
  <1>4. /\ Popped \in Seq(Seq(Letters)) /\ Len(Popped) = m
        /\ \A i \in 1 .. m : Popped[i] = history[i]
    BY <1>2, PoppedProperties
  <1>5. m \in 0 .. Len(history) /\ m \in 0 .. Len(history')
    BY <1>2
  <1>6. /\ Popped' \in Seq(Seq(Letters)) /\ Len(Popped') = m
        /\ \A i \in 1 .. m : Popped'[i] = history'[i]
    <2>1. Popped' = Until(history', m)
      BY <1>2 DEF Popped
    <2> QED BY <1>2, <1>5, <2>1, UntilProperties
  <1>7. CASE Slot = Len(history)
    <2>1. \A i \in 1 .. m : Popped'[i] = Popped[i]
      <3>1. \A i \in 1 .. m : i \in 1 .. Len(history) /\ i # Slot
        BY <1>2, <1>7
      <3> QED BY <3>1, <1>4, <1>6, HistoryKept
    <2>2. Popped' = Popped
      <3> DEFINE q == Popped'
      <3>1. q \in Seq(Seq(Letters)) /\ Len(q) = m /\ \A i \in 1 .. m : q[i] = Popped[i]
        BY <1>6, <2>1
      <3> HIDE DEF q, m
      <3>2. q = Popped
        BY <1>4, <3>1, SeqEqual
      <3> QED BY <3>2 DEF q
    <2> QED BY <1>3, <2>2
  <1>8. CASE Slot # Len(history)
    <2> DEFINE l == Until(buf, n)
               e == [Popped EXCEPT ![Slot] = l]
               q == Popped'
    <2>1. Slot \in 1 .. m
      BY <1>2, <1>8
    <2>2. l \in Seq(Letters)
      BY <1>1, EnteredAreLines
    <2>3. /\ e \in Seq(Seq(Letters)) /\ Len(e) = m
          /\ \A i \in 1 .. m : e[i] = IF i = Slot THEN l ELSE Popped[i]
      BY <1>4, <2>1, <2>2, ExceptSeq
    <2>4. \A i \in 1 .. m : history'[i] = IF i = Slot THEN l ELSE history[i]
      BY <1>1, <1>2
    <2>5. q \in Seq(Seq(Letters)) /\ Len(q) = m /\ \A i \in 1 .. m : q[i] = e[i]
      BY <1>4, <1>6, <2>3, <2>4
    <2>6. q = e
      <3> HIDE DEF q, e, m
      <3> QED BY <2>3, <2>5, SeqEqual
    <2>7. Slot \in DOMAIN Popped
      BY <1>4, <2>1
    <2>8. \E i \in DOMAIN Kept, x \in Entered : Kept' = [Kept EXCEPT ![i] = x]
      BY <1>1, <1>3, <2>6, <2>7
    <2>9. Given' = Given /\ Lost' = Lost
      BY <1>2, <1>3 DEF Given, Lost
    <2> QED BY <1>3, <2>8, <2>9 DEF Book!Amend, Given, Lost
  <1> QED BY <1>7, <1>8

\* What LineBook does not see.
LEMMA BookStutter ==
    ASSUME Kept' = Kept, Phase' = Phase, Given' = Given, Lost' = Lost
    PROVE  UNCHANGED Book!promise
  BY DEF Book!promise, Given, Lost

\* A key that leaves the history alone.
LEMMA BookKey ==
    ASSUME Key, pc' \in {"edit", "crashed"}, UNCHANGED history
    PROVE  UNCHANGED Book!promise
  <1>1. Phase = "open" /\ Phase' = "open" /\ Kept = Popped /\ Kept' = Popped'
    BY DEF Key, Phase, Kept
  <1>2. Popped' = Popped
    BY DEF Popped
  <1>3. Given = Empty /\ Given' = Empty /\ Lost = FALSE /\ Lost' = FALSE
    BY <1>1 DEF Key, Given, Lost
  <1> QED BY <1>1, <1>2, <1>3, BookStutter

\* The ends of a line: with the slot dropped it is given or left, with the slot kept
\* the line that was last kept stays in the list.
LEMMA BookReturn ==
    ASSUME LineInv, Enter \/ EndOfFile \/ Interrupt \/ ReadFails
    PROVE  Book!Give \/ Book!Lose \/ Book!Leave
  <1>1. pc = "edit" /\ Phase = "open" /\ Kept = Popped
    BY DEF Enter, EndOfFile, Interrupt, ReadFails, Key, Phase, Kept
  <1>2. history # <<>> /\ history \in Seq(Seq(Letters)) /\ Len(history) \in Nat
    BY <1>1, EmptySeq DEF LineInv, TypeOK
  <1>3. ASSUME Return PROVE line' \in Entered /\ pc' = "entered" /\ raw' = hungup
    <2>1. PICK n \in 0 .. Len(buf) : IsStrlen(n, buf) /\ line' = Until(buf, n)
      BY <1>3 DEF Return
    <2>2. buf \in Seq(Chars) /\ Len(buf) \in Nat /\ Len(buf) <= BufLen /\ BufLen \in Nat
      BY LineAssumption DEF LineInv, TypeOK
    <2>3. Until(buf, n) \in Seq(Letters) /\ Len(Until(buf, n)) <= BufLen
      BY <2>1, <2>2, StringProperties
    <2> QED BY <1>3, <2>1, <2>3, EnteredIs DEF Return
  <1>4. \E l \in Entered : Len(Popped) < HistoryMax /\ history = Append(Popped, l)
    <2>1. history[Len(history)] \in Entered
      <3>1. Len(history) \in 1 .. Len(history)
        BY <1>2, EmptySeq
      <3> QED BY <3>1 DEF LineInv, AllEntered
    <2> QED BY <1>2, <2>1, AppendPopped
  <1>5. CASE Enter
    <2>1. /\ Return /\ ~hungup /\ history' = Popped
      BY <1>5 DEF Enter, Key
    <2>2. /\ Phase' = "given" /\ Kept' = history' /\ ~raw'
      BY <1>3, <2>1 DEF Phase, Kept
    <2> QED BY <1>1, <1>3, <2>1, <2>2 DEF Book!Give
  <1>6. CASE EndOfFile \/ Interrupt
    <2>1. NoLine /\ ~hungup /\ (history' = Popped \/ history' = history)
      BY <1>6 DEF EndOfFile, Interrupt, Key
    <2>2. pc' = "over" /\ ~raw'
      BY <2>1 DEF NoLine
    <2>3. /\ Phase' = "left" /\ Kept' = history'
      BY <2>2 DEF Phase, Kept
    <2> QED BY <1>1, <1>4, <2>1, <2>2, <2>3 DEF Book!Leave
  <1>7. CASE ReadFails
    <2>1. /\ Return /\ hungup /\ history' = history
      BY <1>7 DEF ReadFails
    <2>2. /\ Phase' = "given" /\ Kept' = history' /\ raw'
      BY <1>3, <2>1 DEF Phase, Kept, LineInv, TypeOK
    <2> QED BY <1>1, <1>3, <1>4, <2>1, <2>2 DEF Book!Lose
  <1> QED BY <1>5, <1>6, <1>7

LEMMA BookQuiet ==
    ASSUME LineInv, ReadPlain \/ NoMoreInput \/ Evaluated \/ HangUp
    PROVE  Book!Give \/ Book!Leave \/ UNCHANGED Book!promise
  <1>1. CASE ReadPlain
    <2>1. /\ pc = "prompt" /\ pc' = "entered" /\ history' = history /\ raw' = raw
          /\ line' \in Entered
      BY <1>1 DEF ReadPlain, Entered
    <2>2. Phase = "idle" /\ Kept = history /\ Phase' = "given" /\ Kept' = history'
      BY <2>1 DEF Phase, Kept
    <2> QED BY <2>1, <2>2 DEF Book!Give
  <1>2. CASE NoMoreInput \/ (Evaluated /\ pc' = "over")
    <2>1. /\ pc \in {"prompt", "eval"} /\ pc' = "over" /\ history' = history /\ raw' = raw
      BY <1>2 DEF NoMoreInput, Evaluated
    <2>2. Phase = "idle" /\ Kept = history /\ Phase' = "left" /\ Kept' = history'
      BY <2>1 DEF Phase, Kept
    <2> QED BY <2>1, <2>2 DEF Book!Leave
  <1>3. CASE Evaluated /\ pc' = "prompt"
    <2>1. /\ pc = "eval" /\ history' = history /\ raw' = raw
      BY <1>3 DEF Evaluated
    <2>2. Phase = "idle" /\ Kept = history /\ Phase' = "idle" /\ Kept' = history'
      BY <1>3, <2>1 DEF Phase, Kept
    <2>3. Given' = Given /\ Lost' = Lost
      BY <1>3, <2>1, <2>2 DEF Given, Lost
    <2> QED BY <2>1, <2>2, <2>3, BookStutter
  <1>4. CASE HangUp
    <2>1. pc' = pc /\ history' = history /\ raw' = raw /\ line' = line
      BY <1>4 DEF HangUp
    <2>2. Phase' = Phase /\ Kept' = Kept
      BY <2>1 DEF Phase, Kept, Popped
    <2>3. Given' = Given /\ Lost' = Lost
      BY <2>1, <2>2 DEF Given, Lost
    <2> QED BY <2>2, <2>3, BookStutter
  <1> QED BY <1>1, <1>2, <1>3, <1>4 DEF Evaluated

LEMMA BookEdit ==
    ASSUME LineInv, Edit
    PROVE  Book!Amend \/ UNCHANGED Book!promise
  <1>1. ASSUME NEW step \in {-1, 1}, linenoiseEditHistoryNext(step)
        PROVE  Book!Amend \/ UNCHANGED Book!promise
    <2>1. pc = "edit" /\ pc' \in {"edit", "crashed"}
      BY <1>1 DEF linenoiseEditHistoryNext, Key, Refresh
    <2>2. Phase = "open" /\ Phase' = "open" /\ Given' = Given /\ Lost' = Lost
      BY <2>1 DEF Phase, Given, Lost
    <2> QED BY <1>1, <2>2, BookMove, BookStutter
  <1>2. CASE \E c \in Chars : linenoiseEditInsert(c)
    <2>1. Key /\ pc' \in {"edit", "crashed"} /\ UNCHANGED history
      BY <1>2 DEF linenoiseEditInsert, Refresh, edited, Key
    <2> QED BY <2>1, BookKey
  <1>3. CASE \/ linenoiseEditBackspace \/ linenoiseEditDelete \/ linenoiseEditDeletePrevWord
             \/ Transpose \/ KillLine \/ KillToEnd \/ Move
    <2>1. Key /\ UNCHANGED history
      BY <1>3 DEF linenoiseEditBackspace, linenoiseEditDelete, linenoiseEditDeletePrevWord,
                  Transpose, KillLine, KillToEnd, Move, edited
    <2>2. \E b, p : Refresh(b, p)
      BY <1>3 DEF linenoiseEditBackspace, linenoiseEditDelete, linenoiseEditDeletePrevWord,
                  Transpose, KillLine, KillToEnd, Move
    <2>3. pc' \in {"edit", "crashed"}
      BY <2>1, <2>2 DEF Key, Refresh
    <2> QED BY <2>1, <2>3, BookKey
  <1> QED BY <1>1, <1>2, <1>3 DEF Edit

\* The history of linenoise.c, with the slot it borrows for the edited line, is the list
\* that LineBook promises, for any length of the list and of the lines.
THEOREM IsBookAlways == Spec => IsBook
  <1>1. Init => Book!Init
    <2> SUFFICES ASSUME Init PROVE Book!Init
      OBVIOUS
    <2>1. pc = "prompt" /\ history = <<>> /\ raw = FALSE
      BY DEF Init
    <2>2. Phase = "idle" /\ Kept = <<>>
      BY <2>1 DEF Phase, Kept
    <2> QED BY <2>1, <2>2 DEF Book!Init
  <1>2. LineInv /\ [Next]_vars => [Book!Next]_(Book!promise)
    <2> SUFFICES ASSUME LineInv, [Next]_vars PROVE [Book!Next]_(Book!promise)
      OBVIOUS
    <2>1. CASE UNCHANGED vars
      <3>1. Phase' = Phase /\ Kept' = Kept
        BY <2>1 DEF vars, Phase, Kept, Popped
      <3>2. Given' = Given /\ Lost' = Lost
        BY <2>1, <3>1 DEF vars, Given, Lost
      <3> QED BY <3>1, <3>2, BookStutter
    <2> QED BY <2>1, BookEdit, BookReturn, BookQuiet, BookBegin, BookKeep
            DEF Next, Program, Book!Next
  <1> QED BY <1>1, <1>2, LineInvAlways, PTL DEF Spec, Book!Spec, IsBook

-----------------------------------------------------------------------------
(* The row shows the line.                                                 *)

\* What refreshSingleLine() would write is in the row, whoever wrote it.
RowInv == pc = "edit" /\ cols > Plen => screen = Row(buf, pos)

\* A key that writes the row again.
LEMMA RowRefreshed ==
    ASSUME LineInv, NEW b \in Seq(Chars), NEW p \in 0 .. Len(b), Refresh(b, p), UNCHANGED cols
    PROVE  RowInv'
  <1>1. Plen \in Nat /\ Len(b) \in Nat /\ cols \in Nat \ {0}
    BY LineAssumption DEF LineInv, TypeOK
  <1>2. cols > Plen => Shown(b, p) >= 0
    BY <1>1 DEF Shown, Scrolled, Smaller
  <1>3. cols > Plen => screen' = Row(b, p)
    BY <1>2 DEF Refresh
  <1>4. Row(b, p)' = Row(b, p)
    BY DEF Row, Shown, Scrolled
  <1>5. Row(buf, pos)' = Row(b, p)
    BY DEF Refresh, Row, Shown, Scrolled
  <1> QED BY <1>3, <1>5 DEF RowInv

\* A line that fits the row before the last column but one is all there.
LEMMA RowOfShort ==
    ASSUME cols \in Nat, NEW b \in Seq(Chars), Plen + Len(b) < cols
    PROVE  Row(b, Len(b)) = [cells |-> b, cur |-> Plen + Len(b)]
  <1>1. Plen \in Nat /\ Len(b) \in Nat
    BY LineAssumption
  <1>2. Scrolled(Len(b)) = 0
    BY <1>1 DEF Scrolled
  <1>3. Smaller(Shown(b, Len(b)), cols - Plen - 1) = Len(b)
    BY <1>1, <1>2 DEF Shown, Smaller
  <1>4. SubSeq(b, 1, Len(b)) = b
    BY UntilAll DEF Until
  <1>5. 0 + 1 = 1 /\ 0 + Len(b) = Len(b) /\ Plen + Len(b) - 0 = Plen + Len(b)
    BY <1>1
  <1> QED BY <1>2, <1>3, <1>4, <1>5 DEF Row

\* linenoiseEditInsert(): the character that is written alone makes the same row.
LEMMA RowInsert ==
    ASSUME LineInv, RowInv, NEW c \in Chars, linenoiseEditInsert(c)
    PROVE  RowInv'
  <1> DEFINE b == Until(buf, pos) \o <<c>> \o After(buf, pos)
             a == Append(buf, c)
  <1>1. /\ Key /\ cols' = cols /\ buf \in Seq(Chars) /\ Len(buf) \in Nat
        /\ pos \in 0 .. Len(buf) /\ cols \in Nat /\ Plen \in Nat
    BY LineAssumption DEF linenoiseEditInsert, edited, LineInv, TypeOK
  <1>2. CASE Refresh(b, pos + 1)
    <2>1. b \in Seq(Chars) /\ Len(b) = Len(buf) + 1
      BY <1>1, InsertProperties
    <2> HIDE DEF b
    <2>2. pos + 1 \in 0 .. Len(b)
      BY <1>1, <2>1
    <2> QED BY <1>1, <1>2, <2>1, <2>2, RowRefreshed
  <1>3. CASE /\ pos = Len(buf) /\ Plen + Len(buf) + 1 < cols
             /\ buf' = a /\ pos' = pos + 1
             /\ screen' = [cells |-> Append(screen.cells, c), cur |-> screen.cur + 1]
    <2>1. a \in Seq(Chars) /\ Len(a) = Len(buf) + 1
      BY <1>1, AppendProperties
    <2>2. screen = [cells |-> buf, cur |-> Plen + Len(buf)]
      <3>1. screen = Row(buf, Len(buf))
        BY <1>1, <1>3 DEF RowInv, Key
      <3>2. Plen + Len(buf) < cols
        BY <1>1, <1>3
      <3> QED BY <1>1, <3>1, <3>2, RowOfShort
    <2> HIDE DEF a
    <2>3. Row(a, Len(a)) = [cells |-> a, cur |-> Plen + Len(a)]
      <3>1. Plen + Len(a) < cols
        BY <1>1, <1>3, <2>1
      <3> QED BY <1>1, <2>1, <3>1, RowOfShort
    <2>4. screen' = Row(a, Len(a))
      <3>1. screen.cells = buf /\ screen.cur = Plen + Len(buf)
        BY <2>2
      <3>2. screen' = [cells |-> a, cur |-> Plen + Len(buf) + 1]
        BY <1>3, <3>1 DEF a
      <3> QED BY <1>1, <2>1, <2>3, <3>2
    <2>5. Row(buf, pos)' = Row(a, Len(a))
      BY <1>1, <1>3, <2>1 DEF Row, Shown, Scrolled
    <2> QED BY <2>4, <2>5 DEF RowInv
  <1> QED BY <1>2, <1>3 DEF linenoiseEditInsert

\* linenoiseEditHistoryNext(): another entry is written anew, or nothing changes.
LEMMA RowMove ==
    ASSUME LineInv, RowInv, NEW step \in {-1, 1}, linenoiseEditHistoryNext(step)
    PROVE  RowInv'
  <1>1. /\ Key /\ index \in Nat /\ Len(history) \in Nat /\ cols' = cols
        /\ BufLen \in Nat \ {0} /\ history \in Seq(Seq(Letters))
    BY LineAssumption DEF LineInv, TypeOK, linenoiseEditHistoryNext, Key
  <1>2. CASE UNCHANGED <<index, buf, pos, screen, pc>>
    BY <1>1, <1>2 DEF RowInv, Row, Shown, Scrolled
  <1>3. CASE index + step \in 0 .. Len(history) - 1
    <2> DEFINE h == history[Slot - step]
               n == Smaller(Len(h), BufLen - 1)
    <2>1. Refresh(Until(h, n), n)
      BY <1>3 DEF linenoiseEditHistoryNext
    <2>2. Slot - step \in 1 .. Len(history)
      BY <1>1, <1>3 DEF Slot
    <2>3. h \in Seq(Letters)
      BY <1>1, <2>2, ElementOfSeq
    <2>4. h \in Seq(Chars)
      BY <2>3, SeqMonotonic DEF Letters
    <2> HIDE DEF h
    <2>5. n \in 0 .. Len(h)
      BY <1>1, <2>4 DEF Smaller
    <2> HIDE DEF n
    <2>6. Until(h, n) \in Seq(Chars) /\ n \in 0 .. Len(Until(h, n))
      BY <2>4, <2>5, UntilProperties
    <2> QED BY <1>1, <2>1, <2>6, RowRefreshed
  <1> QED BY <1>2, <1>3 DEF linenoiseEditHistoryNext

\* The keys that delete and move write the row again.
LEMMA RowDelete ==
    ASSUME LineInv,
           \/ linenoiseEditBackspace \/ linenoiseEditDelete \/ linenoiseEditDeletePrevWord
           \/ Transpose \/ KillLine \/ KillToEnd \/ Move
    PROVE  RowInv'
  <1>1. \E b, p : Refresh(b, p)
    BY DEF linenoiseEditBackspace, linenoiseEditDelete, linenoiseEditDeletePrevWord,
           Transpose, KillLine, KillToEnd, Move
  <1>2. LineInv' /\ UNCHANGED cols
    BY DeleteStep DEF linenoiseEditBackspace, linenoiseEditDelete,
       linenoiseEditDeletePrevWord, Transpose, KillLine, KillToEnd, Move, edited
  <1>3. buf' \in Seq(Chars) /\ pos' \in 0 .. Len(buf')
    BY <1>2 DEF LineInv, TypeOK
  <1>4. PICK b, p : Refresh(b, p) /\ b = buf' /\ p = pos'
    BY <1>1 DEF Refresh
  <1>5. b \in Seq(Chars) /\ p \in 0 .. Len(b)
    BY <1>3, <1>4
  <1> QED BY <1>2, <1>4, <1>5, RowRefreshed

\* The numbers of the row of an empty line.
LEMMA NothingFits ==
    ASSUME NEW c \in Nat, Plen \in Nat, c > Plen
    PROVE  LET d == IF Plen + 0 >= c THEN Plen + 0 - c + 1 ELSE 0
               n == Smaller(Smaller(0 - d, c - Plen), c - Plen - 1)
           IN  d + 1 = 1 /\ d + n = 0 /\ Plen + 0 - d = Plen
  BY DEF Smaller

LEMMA RowStep == LineInv /\ RowInv /\ [Next]_vars => RowInv'
  <1> SUFFICES ASSUME LineInv, RowInv, [Next]_vars PROVE RowInv'
    OBVIOUS
  <1>1. CASE Edit
    BY <1>1, RowInsert, RowMove, RowDelete DEF Edit
  <1>2. CASE Begin
    <2>1. buf' = Empty /\ pos' = 0 /\ screen' = [cells |-> <<>>, cur |-> Plen] /\ cols' \in Cols
      BY <1>2 DEF Begin
    <2>2. Len(Empty) = 0 /\ Empty \in Seq(Chars) /\ cols' \in Nat /\ Plen \in Nat
      BY <2>1, EmptyEntered, LineAssumption
    <2>3. ASSUME cols' > Plen PROVE Row(buf, pos)' = [cells |-> <<>>, cur |-> Plen]
      <3> DEFINE d == IF Plen + 0 >= cols' THEN Plen + 0 - cols' + 1 ELSE 0
                 n == Smaller(Smaller(0 - d, cols' - Plen), cols' - Plen - 1)
      <3>1. Row(buf, pos)' = [cells |-> SubSeq(Empty, d + 1, d + n), cur |-> Plen + 0 - d]
        BY <2>1, <2>2 DEF Row, Shown, Scrolled, Smaller
      <3>2. d + 1 = 1 /\ d + n = 0 /\ Plen + 0 - d = Plen
        BY <2>2, <2>3, NothingFits
      <3>3. SubSeq(Empty, 1, 0) = <<>>
        BY <2>2, UntilAll DEF Until, Empty
      <3> HIDE DEF d, n
      <3> QED BY <3>1, <3>2, <3>3
    <2> QED BY <2>1, <2>3 DEF RowInv
  <1>3. CASE Enter \/ EndOfFile \/ Interrupt \/ ReadFails
    BY <1>3 DEF Enter, EndOfFile, Interrupt, ReadFails, Return, NoLine, RowInv
  <1>4. CASE ReadPlain \/ NoMoreInput \/ Evaluated \/ Keep
    BY <1>4 DEF ReadPlain, NoMoreInput, Evaluated, Keep, RowInv
  <1>5. CASE HangUp \/ UNCHANGED vars
    <2>1. UNCHANGED <<pc, buf, pos, cols, screen>>
      BY <1>5 DEF HangUp, vars
    <2> QED BY <2>1 DEF RowInv, Row, Shown, Scrolled
  <1> QED BY <1>1, <1>2, <1>3, <1>4, <1>5 DEF Next, Program

\* refreshSingleLine() and the character that linenoiseEditInsert() writes alone leave the
\* same picture, for lines, prompts and terminals of any size: the row shows the line
\* around the cursor, and the cursor is where the next character goes.
THEOREM ScreenShowsLineAlways == Spec => []ScreenShowsLine
  <1>1. Init => RowInv
    BY DEF Init, RowInv
  <1>2. LineInv /\ RowInv => ScreenShowsLine
    <2> SUFFICES ASSUME LineInv, RowInv, pc = "edit", cols > Plen
                 PROVE  \E from \in 0 .. pos :
                            /\ screen.cells =
                                   SubSeq(buf, from + 1, Smaller(Len(buf), from + cols - Plen - 1))
                            /\ screen.cur = Plen + pos - from
                            /\ screen.cur < cols
                            /\ from > 0 => screen.cur = cols - 1
      BY DEF ScreenShowsLine
    <2> DEFINE d == Scrolled(pos)
    <2>1. /\ Plen \in Nat /\ cols \in Nat /\ Len(buf) \in Nat /\ pos \in 0 .. Len(buf)
      BY LineAssumption DEF LineInv, TypeOK
    <2>2. d \in 0 .. pos /\ Plen + pos - d < cols /\ (d > 0 => Plen + pos - d = cols - 1)
      BY <2>1 DEF Scrolled
    <2>3. d + Smaller(Shown(buf, pos), cols - Plen - 1)
              = Smaller(Len(buf), d + cols - Plen - 1)
      <3> HIDE DEF d
      <3>1. Shown(buf, pos) = Smaller(Len(buf) - d, cols - Plen)
        BY DEF Shown, d
      <3> QED BY <2>1, <2>2, <3>1 DEF Smaller
    <2>4. screen.cells = SubSeq(buf, d + 1, Smaller(Len(buf), d + cols - Plen - 1))
      BY <2>3 DEF RowInv, Row
    <2>5. screen.cur = Plen + pos - d
      BY DEF RowInv, Row
    <2> HIDE DEF d
    <2> QED BY <2>2, <2>4, <2>5
  <1> QED BY <1>1, <1>2, RowStep, LineInvAlways, NextLine, PTL DEF Spec

=============================================================================
