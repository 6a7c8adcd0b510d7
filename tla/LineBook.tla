------------------------------ MODULE LineBook ------------------------------
(***************************************************************************)
(* What the history of the line editor promises, without the slot that     *)
(* holds the line being edited: a list of at most Max lines, oldest first. *)
(* A line that was entered goes to the end of it, unless it is there       *)
(* already; an old line changes only when it has been edited and left for  *)
(* another one; and only the oldest line makes room.                       *)
(***************************************************************************)
EXTENDS Integers, Sequences

CONSTANTS
    Lines,      \* what can be entered
    Empty,      \* the empty line, one of Lines
    Max         \* how many lines the list holds

VARIABLES
    book,
    phase,      \* "idle", "open" while a line is edited, "given" when it is
                \* entered and not yet in the list, "left" at the end
    given,      \* the line that was entered
    lost        \* the terminal was lost while a line was edited

promise == <<book, phase, given, lost>>

Init ==
    /\ book = <<>>
    /\ phase = "idle"
    /\ given = Empty
    /\ lost = FALSE

LastIs(l) == book # <<>> /\ book[Len(book)] = l

\* A line is begun and needs a place: that of an empty line at the end or, when
\* the list is full, that of the oldest line.
Begin ==
    /\ phase = "idle"
    /\ ~lost
    /\ phase' = "open"
    /\ book' = IF LastIs(Empty) THEN SubSeq(book, 1, Len(book) - 1)
               ELSE IF Len(book) = Max THEN Tail(book) ELSE book
    /\ UNCHANGED <<given, lost>>

\* Another line is shown, and the old one that was shown has been edited.
Amend ==
    /\ phase = "open"
    /\ \E i \in DOMAIN book, l \in Lines : book' = [book EXCEPT ![i] = l]
    /\ UNCHANGED <<phase, given, lost>>

\* A line is entered, at the editor or without it.
Give ==
    /\ phase \in {"idle", "open"}
    /\ phase' = "given"
    /\ given' \in Lines
    /\ UNCHANGED <<book, lost>>

\* The terminal is lost: the line counts as entered as it is, and what it was
\* when it was last kept stays in the list.
Lose ==
    /\ phase = "open"
    /\ phase' = "given"
    /\ given' \in Lines
    /\ lost' = TRUE
    /\ \E l \in Lines : Len(book) < Max /\ book' = Append(book, l)

Keep ==
    /\ phase = "given"
    /\ phase' = "idle"
    /\ given' = Empty
    /\ book' = IF LastIs(given) THEN book
               ELSE IF Len(book) = Max THEN Append(Tail(book), given)
               ELSE Append(book, given)
    /\ UNCHANGED lost

\* The prompt ends, with or without the line that was last kept.
Leave ==
    /\ phase \in {"idle", "open"}
    /\ phase' = "left"
    /\ \/ UNCHANGED book
       \/ /\ phase = "open"
          /\ \E l \in Lines : Len(book) < Max /\ book' = Append(book, l)
    /\ UNCHANGED <<given, lost>>

Next == Begin \/ Amend \/ Give \/ Lose \/ Keep \/ Leave

Spec == Init /\ [][Next]_promise
=============================================================================
